---------------------------- MODULE Spec2Model ----------------------------
(***************************************************************************)
(* Verification model of the query-time RAG pipeline of src/app:           *)
(*   - RAGPipeline.answer / ingest            (pipeline.py)                *)
(*   - Retriever.retrieve                     (retriever.py)               *)
(*   - VectorStoreManager                     (vector_store.py)            *)
(*   - NoOpReranker                           (reranker.py)                *)
(*   - Generator.generate_answer              (generator.py)               *)
(*   - MetricsCollector                       (metrics.py)                 *)
(*   - EmbeddingService                       (embedding_service.py)       *)
(* Spec      : one pipeline over one storage directory, calls in sequence. *)
(* SpecEmbed : one EmbeddingService, embed_texts / embed_query in sequence.*)
(***************************************************************************)
EXTENDS Integers, Sequences, FiniteSets, TLC

\* ------------------------------------------------------------------ bounds
\* answer() calls per behaviour
MaxCalls == 3
\* largest configured / requested top-k
MaxK == 2
\* largest number of chunks an ingestion produces
MaxChunks == 1
\* largest limit passed to recent()
MaxLimit == 4
\* longest list passed to embed_texts
MaxLen == 3
\* embed_texts / embed_query calls per behaviour
MaxEmbedCalls == 2

None == "None"

\* Optional[int]: Nil is Python's None, Some(n) an int
Nil == <<>>
Some(n) == <<n>>
Val(o) == o[1]

Max(a, b) == IF a >= b THEN a ELSE b
Min(a, b) == IF a <= b THEN a ELSE b

Range(s) == { s[i] : i \in DOMAIN s }

\* ---------------------------------------------------------------- pipeline
VARIABLES
    settings,           \* Settings: top_k, rerank_top_k, api_key
    index_files,        \* persisted index + metadata files: Nil or Some(#chunks)
    vector_store,       \* VectorStoreManager._vector_store: Nil or Some(#chunks)
    generator,          \* RAGPipeline._generator: None or "Generator"
    metrics,            \* rows of the sqlite table metrics, in id order
    pc,                 \* position of the answer() call in flight
    query,              \* answer(): query
    top_k,              \* answer(): top_k (Nil when not given)
    retrieval_results,  \* answer(): retrieval_results
    reranked_results,   \* answer(): reranked_results
    outcome,            \* what the last answer() gave its caller
    calls,              \* collaborator calls made by the call in flight
    rows_at_start,      \* history: number of rows when the call started
    n_calls,            \* history: answer() calls started
    n_answers,          \* history: answer() calls that returned an Answer
    recorded,           \* history: timestamps of the inserts that succeeded
    answer,             \* answer(): answer (Nil until it is built)
    metrics_lock,       \* MetricsCollector._lock is held
    insert_failed,      \* history: the insert of the call in flight failed
    raised_in           \* history: the stage of the call in flight that raised

pipe_vars == << settings, index_files, vector_store, generator, metrics, pc,
                query, top_k, retrieval_results, reranked_results, outcome,
                calls, rows_at_start, n_calls, n_answers, recorded, answer,
                metrics_lock, insert_failed, raised_in >>

\* Queries the callers send: empty, whitespace-only, and a non-blank one
\* with whitespace around it.
Queries == { <<>>, <<" ", " ">>, <<" ", "q", " ">> }

\* top_k as the callers give it (cli.py:33, schemas.py:12: Optional[int]).
TopKInputs == {Nil} \cup { Some(k) : k \in 0 .. MaxK }

Whitespace == {" "}

RECURSIVE lstrip(_)
lstrip(s) ==
    IF s = <<>> THEN <<>>
    ELSE IF Head(s) \in Whitespace THEN lstrip(Tail(s)) ELSE s

RECURSIVE rstrip(_)
rstrip(s) ==
    IF s = <<>> THEN <<>>
    ELSE IF s[Len(s)] \in Whitespace THEN rstrip(SubSeq(s, 1, Len(s) - 1))
    ELSE s

\* str.strip()
strip(s) == rstrip(lstrip(s))

\* variant: the query is tested without strip()
query_rejected_nostrip(q) == q = <<>>

\* pipeline.py:75  `if not query.strip()`
query_rejected(q) == strip(q) = <<>>

\* pipeline.py:80,88  `top_k or self.settings.top_k` (None and 0 are falsy)
top_k_or_default(cfg, k) ==
    IF k = Nil \/ k = Some(0) THEN cfg.top_k ELSE Val(k)

\* variant: the rerank depth alone, without the max
retrieval_depth_nomax(cfg, k) == cfg.rerank_top_k

\* pipeline.py:80
retrieval_depth(cfg, k) == Max(cfg.rerank_top_k, top_k_or_default(cfg, k))

\* variant: a missing index is taken for an empty one
ensure_vector_store_silent(vs, files) ==
    IF vs # Nil THEN [store |-> vs, error |-> None]
    ELSE IF files # Nil THEN [store |-> files, error |-> None]
    ELSE [store |-> Some(0), error |-> None]

\* vector_store.py:33-49  VectorStoreManager._ensure_vector_store
ensure_vector_store(vs, files) ==
    IF vs # Nil THEN [store |-> vs, error |-> None]
    ELSE IF files # Nil THEN [store |-> files, error |-> None]
    ELSE [store |-> Nil, error |-> "RuntimeError"]

\* reranker.py:33  NoOpReranker.rerank: list(candidates)[:top_k]
noop_rerank(candidates, k) ==
    SubSeq(candidates, 1, Min(Len(candidates), Max(k, 0)))

\* --------------------------------------------------------------- rerankers
MaxRerankK == 3

VARIABLES
    rr_pc,              \* position of the rerank() call: "call", "done"
    rr_name,            \* RerankerConfig.name of the variant built
    rr_candidates,      \* rerank(): candidates
    rr_top_k,           \* rerank(): top_k
    rr_results,         \* history: what the ColBERT model returned
    rr_ranked           \* the list rerank() returned

rerank_vars == << rr_pc, rr_name, rr_candidates, rr_top_k, rr_results,
                  rr_ranked >>

\* types.py:29-32, retriever.py:34-46  RetrievalResult(chunk, score); of the
\* chunk, the id, the text and metadata["score"], which retrieve() sets to
\* the score.
RetrievalResult(id, text, score) ==
    [chunk_id |-> id, text |-> text, score |-> score,
     meta_score |-> Some(score)]

\* The chunks of the index, each with its distance from the query; c1 and
\* c2 carry the same passage, as the chunks of two copies of a file do.
IndexedChunks ==
    { RetrievalResult("c1", "t1", "d(t1)"),
      RetrievalResult("c2", "t1", "d(t1)"),
      RetrievalResult("c3", "t2", "d(t2)") }

IsInjective(s) == \A i, j \in DOMAIN s : s[i] = s[j] => i = j

\* retriever.py:22-47: the hits of one search are distinct chunks in the
\* order of their distance from the query, so equal distances are adjacent
CandidateLists ==
    { s \in UNION { [1 .. n -> IndexedChunks] : n \in 0 .. 3 } :
        /\ IsInjective(s)
        /\ \A i, j \in DOMAIN s :
              i < j /\ s[i].score = s[j].score =>
                  \A m \in i .. j : s[m].score = s[i].score }

RerankerNames == {"none", "colbert"}

\* The score a model attaches to a passage; the code only copies it into
\* metadata["score"], so one value stands for all of them.
RerankScores == {"0.9"}

\* a str or None is truthy when it is a non-empty string
truthy(s) == s # None /\ s # ""

\* reranker.py:65  result.get("content") or result.get("text")
content_or_text(r) == IF truthy(r.content) THEN r.content ELSE r.text

\* reranker.py:55  passages = [item.chunk.text for item in candidates]
passages_of(candidates) == [i \in DOMAIN candidates |-> candidates[i].text]

\* reranker.py:70  passages.index(text): the first position (from 0) that
\* holds text; Nil stands for ValueError
passages_index(passages, text) ==
    IF \E i \in DOMAIN passages : passages[i] = text
    THEN Some((CHOOSE i \in DOMAIN passages :
                  /\ passages[i] = text
                  /\ \A j \in 1 .. i - 1 : passages[j] # text) - 1)
    ELSE Nil

\* reranker.py:56,73  mapping = {idx: item}; mapping.get(index)
mapping_get(candidates, index) ==
    IF index # Nil /\ Val(index) + 1 \in DOMAIN candidates
    THEN Some(Val(index) + 1)
    ELSE Nil

\* What RAGPretrainedModel.rerank(query, documents, k) can return: a ranked
\* subset of at most k of the passages, each entry with a score and a
\* back-reference to its passage by index, by text, or by both.
ResultDicts(passages) ==
    UNION { { [score |-> s, result_index |-> Some(i - 1), content |-> None,
               text |-> None],
              [score |-> s, result_index |-> Some(i - 1),
               content |-> passages[i], text |-> None],
              [score |-> s, result_index |-> Nil, content |-> passages[i],
               text |-> None],
              [score |-> s, result_index |-> Nil, content |-> None,
               text |-> passages[i]] } :
            s \in RerankScores, i \in DOMAIN passages }

\* the passage position an entry refers to
referred(passages, r) ==
    IF r.result_index # Nil THEN r.result_index
    ELSE passages_index(passages, content_or_text(r))

\* reranker.py:59  "RAGatouille returns dicts with `content`, `score`,
\* `rank`, `result_index`": the entries that carry both back-references
RagatouilleDicts(passages) ==
    { [score |-> s, result_index |-> Some(i - 1), content |-> passages[i],
       text |-> None] : s \in RerankScores, i \in DOMAIN passages }

\* the ranked subsets of at most k passages, written with the given entries
ResultLists(dicts, passages, k) ==
    { rs \in UNION { [1 .. n -> dicts] :
                       n \in 0 .. Min(Max(k, 0), Len(passages)) } :
        \A i, j \in DOMAIN rs :
            referred(passages, rs[i]) = referred(passages, rs[j]) => i = j }

ModelResults(passages, k) == ResultLists(ResultDicts(passages), passages, k)

RagatouilleResults(passages, k) ==
    ResultLists(RagatouilleDicts(passages), passages, k)

\* reranker.py:62-81: one pass over the results; st.ranked holds candidate
\* positions, st.seen the texts seen, st.meta the metadata["score"] written
\* to each candidate (the items are shared with the candidate list).
RECURSIVE rank_loop(_, _, _, _)
rank_loop(st, candidates, results, i) ==
    IF i > Len(results) THEN st
    ELSE LET r == results[i]
             text == content_or_text(r)
             index == IF r.result_index # Nil THEN r.result_index
                      ELSE IF ~truthy(text) THEN Nil
                      ELSE passages_index(passages_of(candidates), text)
             item == mapping_get(candidates, index)
             skip == \/ item = Nil
                     \/ truthy(text) /\ text \in st.seen
             next == IF skip THEN st
                     ELSE [ranked |-> Append(st.ranked, Val(item)),
                           seen |-> IF truthy(text) THEN st.seen \cup {text}
                                    ELSE st.seen,
                           meta |-> [st.meta EXCEPT ![Val(item)] =
                                                        Some(r.score)]]
         IN  rank_loop(next, candidates, results, i + 1)

\* the items as they are after the loop wrote metadata["score"]
scored_item(candidates, meta, p) ==
    [candidates[p] EXCEPT !.meta_score = meta[p]]

\* the positions of a set, in list order
RECURSIVE in_order(_)
in_order(S) ==
    IF S = {} THEN <<>>
    ELSE LET m == CHOOSE x \in S : \A y \in S : x <= y
         IN  << m >> \o in_order(S \ {m})

\* variant: the gap is filled from the head of the candidate list
backfill_unfiltered(candidates, st, k) ==
    IF Len(st.ranked) < k
    THEN st.ranked \o
         in_order(1 .. Min(Len(candidates), k - Len(st.ranked)))
    ELSE st.ranked

\* reranker.py:83-85  remaining = [item for item in candidates if item not
\* in ranked] (dataclass equality); ranked.extend(remaining[:top_k - len])
backfill(candidates, st, k) ==
    IF Len(st.ranked) < k
    THEN LET item(p) == scored_item(candidates, st.meta, p)
             not_in_ranked(p) ==
                 \A q \in Range(st.ranked) : item(q) # item(p)
             remaining ==
                 in_order({ p \in DOMAIN candidates : not_in_ranked(p) })
         IN  st.ranked \o
             SubSeq(remaining, 1, Min(Len(remaining), k - Len(st.ranked)))
    ELSE st.ranked

\* reranker.py:52-87  ColBERTReranker.rerank, given the model's results
colbert_rerank(candidates, k, results) ==
    LET st == rank_loop([ranked |-> <<>>, seen |-> {},
                         meta |-> [p \in DOMAIN candidates |->
                                     candidates[p].meta_score]],
                        candidates, results, 1)
        ranked == backfill(candidates, st, k)
    IN  [i \in 1 .. Min(Len(ranked), Max(k, 0)) |->
            scored_item(candidates, st.meta, ranked[i])]

RerankInit ==
    /\ rr_pc = "call"
    /\ rr_name \in RerankerNames
    /\ rr_candidates \in CandidateLists
    /\ rr_top_k \in 0 .. MaxRerankK
    /\ rr_results = <<>>
    /\ rr_ranked = <<>>

\* reranker.py:90-94,28-33: the pass-through variant
noop_rerank_call ==
    /\ rr_pc = "call"
    /\ rr_name = "none"
    /\ rr_ranked' = noop_rerank(rr_candidates, rr_top_k)
    /\ rr_pc' = "done"
    /\ UNCHANGED << rr_name, rr_candidates, rr_top_k, rr_results >>

\* reranker.py:90-96,52-87: the ColBERT variant
colbert_rerank_call ==
    /\ rr_pc = "call"
    /\ rr_name = "colbert"
    /\ \E results \in ModelResults(passages_of(rr_candidates), rr_top_k) :
          /\ rr_results' = results
          /\ rr_ranked' = colbert_rerank(rr_candidates, rr_top_k, results)
    /\ rr_pc' = "done"
    /\ UNCHANGED << rr_name, rr_candidates, rr_top_k >>

\* no rerank() call in progress or to come
RerankQuiet ==
    /\ rr_pc = "done"
    /\ rr_name = "none"
    /\ rr_candidates = <<>>
    /\ rr_top_k = 0
    /\ rr_results = <<>>
    /\ rr_ranked = <<>>

\* ------------------------------------------------------ pipeline, continued
\* retriever.py:34-46: the hit for the i-th best chunk of the index
index_chunk(i) ==
    RetrievalResult(<< "chunk", i >>, "text " \o ToString(i),
                    "d " \o ToString(i))

\* The index engine's search(query, k): the k best of the n chunks, best
\* first.
similarity_search(n, k) == [i \in 1 .. Min(n, Max(k, 0)) |-> index_chunk(i)]

Call(op, k) == [op |-> op, k |-> k]

PipeInit ==
    /\ settings \in [top_k : 1 .. MaxK, rerank_top_k : 1 .. MaxK,
                     api_key : BOOLEAN, reranker : RerankerNames]
    /\ index_files = Nil
    /\ vector_store = Nil
    /\ generator = None
    /\ metrics = <<>>
    /\ pc = "idle"
    /\ query = <<>>
    /\ top_k = Nil
    /\ retrieval_results = <<>>
    /\ reranked_results = <<>>
    /\ outcome = None
    /\ calls = <<>>
    /\ rows_at_start = 0
    /\ n_calls = 0
    /\ n_answers = 0
    /\ recorded = <<>>
    /\ answer = Nil
    /\ metrics_lock = FALSE
    /\ insert_failed = FALSE
    /\ raised_in = None


\* metrics.py:55-81  MetricsCollector.record: the INSERT; id is AUTOINCREMENT
insert_row(rows, q, k, ts) ==
    Append(rows, [id |-> Len(rows) + 1, query |-> q, retrieved_k |-> k,
                  timestamp |-> ts, status |-> "success"])

\* The row that ORDER BY id DESC puts at position i
row_id_desc(rows, i) ==
    CHOOSE r \in Range(rows) :
        Cardinality({ s \in Range(rows) : s.id > r.id }) = i - 1

\* variant: ORDER BY id ASC
row_id_asc(rows, i) ==
    CHOOSE r \in Range(rows) :
        Cardinality({ s \in Range(rows) : s.id < r.id }) = i - 1

\* The dict recent() builds from a row (metrics.py:98-109): no id
row_dict(r) ==
    [query |-> r.query, retrieved_k |-> r.retrieved_k,
     timestamp |-> r.timestamp, status |-> r.status]

\* variant: recent() over ORDER BY id ASC
recent_oldest_first(rows, limit) ==
    [i \in 1 .. (IF limit < 0 THEN Len(rows) ELSE Min(limit, Len(rows)))
        |-> row_dict(row_id_asc(rows, i))]

\* metrics.py:83-109  MetricsCollector.recent: ORDER BY id DESC LIMIT ?
recent(rows, limit) ==
    [i \in 1 .. (IF limit < 0 THEN Len(rows) ELSE Min(limit, Len(rows)))
        |-> row_dict(row_id_desc(rows, i))]

\* metrics.py:111-129  MetricsCollector.aggregates: COUNT(*)
aggregates(rows) == [total_queries |-> Len(rows)]

\* pipeline.py:48-71 ingest, vector_store.py:51-82 build_index: n chunks are
\* produced from the corpus; none is a RuntimeError that leaves all as it was.
ingest(n) ==
    /\ pc = "idle"
    /\ IF n = 0
       THEN UNCHANGED << index_files, vector_store >>
       ELSE /\ index_files' = Some(n)
            /\ vector_store' = Some(n)
    /\ UNCHANGED << settings, generator, metrics, pc, query, top_k,
                    retrieval_results, reranked_results, outcome, calls,
                    rows_at_start, n_calls, n_answers, recorded, answer,
                    metrics_lock, insert_failed, raised_in >>

\* pipeline.py:24-40  a new RAGPipeline over the same storage directory
restart ==
    /\ pc = "idle"
    /\ vector_store # Nil \/ generator # None
    /\ vector_store' = Nil
    /\ generator' = None
    /\ UNCHANGED << settings, index_files, metrics, pc, query, top_k,
                    retrieval_results, reranked_results, outcome, calls,
                    rows_at_start, n_calls, n_answers, recorded, answer,
                    metrics_lock, insert_failed, raised_in >>

\* pipeline.py:73-76  answer(): entry and validation of the query
answer_start(q, k) ==
    /\ pc = "idle"
    /\ n_calls < MaxCalls
    /\ query' = q
    /\ top_k' = k
    /\ calls' = <<>>
    /\ retrieval_results' = <<>>
    /\ reranked_results' = <<>>
    /\ rows_at_start' = Len(metrics)
    /\ n_calls' = n_calls + 1
    /\ IF query_rejected(q)
       THEN outcome' = "ValueError" /\ pc' = "done"
       ELSE outcome' = None /\ pc' = "retrieve"
    /\ UNCHANGED << settings, index_files, vector_store, generator, metrics,
                    n_answers, recorded, answer, metrics_lock, insert_failed,
                    raised_in >>

\* pipeline.py:80-86, retriever.py:22-27: the similarity search at the
\* amplified depth; the external search may raise.
retrieve_stage ==
    /\ pc = "retrieve"
    /\ LET e == ensure_vector_store(vector_store, index_files)
           depth == retrieval_depth(settings, top_k)
       IN  IF e.error # None
           THEN /\ outcome' = e.error
                /\ raised_in' = "retrieve"
                /\ pc' = "done"
                /\ UNCHANGED << vector_store, calls, retrieval_results >>
           ELSE /\ vector_store' = e.store
                /\ calls' = Append(calls, Call("search", depth))
                /\ \/ /\ retrieval_results' = similarity_search(Val(e.store), depth)
                      /\ pc' = "rerank"
                      /\ UNCHANGED << outcome, raised_in >>
                   \/ /\ outcome' = "ExternalError"
                      /\ raised_in' = "retrieve"
                      /\ pc' = "done"
                      /\ UNCHANGED retrieval_results
    /\ UNCHANGED << settings, index_files, generator, metrics, query, top_k,
                    reranked_results, rows_at_start, n_calls, n_answers,
                    recorded, answer, metrics_lock, insert_failed >>

\* variant: the candidates go to the generator without a rerank call
rerank_stage_skipped ==
    /\ pc = "rerank"
    /\ reranked_results' = retrieval_results
    /\ pc' = "generate"
    /\ UNCHANGED << settings, index_files, vector_store, generator, metrics,
                    query, top_k, retrieval_results, outcome, calls,
                    rows_at_start, n_calls, n_answers, recorded, answer,
                    metrics_lock, insert_failed, raised_in >>

\* pipeline.py:87-91: the reranker narrows the candidates to the final
\* top-k; the ColBERT model is an external call and may raise.
rerank_stage ==
    /\ pc = "rerank"
    /\ LET k == top_k_or_default(settings, top_k)
       IN  /\ calls' = Append(calls, Call("rerank", k))
           /\ IF settings.reranker = "colbert"
              THEN \/ /\ \E results \in
                            RagatouilleResults(passages_of(retrieval_results),
                                               k) :
                            reranked_results' =
                                colbert_rerank(retrieval_results, k, results)
                      /\ pc' = "generate"
                      /\ UNCHANGED << outcome, raised_in >>
                   \/ /\ outcome' = "ExternalError"
                      /\ raised_in' = "rerank"
                      /\ pc' = "done"
                      /\ UNCHANGED reranked_results
              ELSE /\ reranked_results' = noop_rerank(retrieval_results, k)
                   /\ pc' = "generate"
                   /\ UNCHANGED << outcome, raised_in >>
    /\ UNCHANGED << settings, index_files, vector_store, generator, metrics,
                    query, top_k, retrieval_results, rows_at_start, n_calls,
                    n_answers, recorded, answer, metrics_lock, insert_failed >>

\* pipeline.py:112-118  Answer(query, answer, citations, contexts, latency_ms)
Answer(q, contexts) == [query |-> q, contexts |-> contexts]

\* variant: a failed chat completion is answered from the contexts alone
generate_stage_fallback ==
    /\ pc = "generate"
    /\ IF generator = None /\ ~settings.api_key
       THEN /\ outcome' = "RuntimeError"
            /\ raised_in' = "generate"
            /\ pc' = "done"
            /\ UNCHANGED << generator, calls, answer >>
       ELSE /\ generator' = "Generator"
            /\ calls' = Append(calls, Call("chat", Len(reranked_results)))
            /\ pc' = "record"
            /\ answer' = Some([query |-> query, contexts |-> reranked_results])
            /\ \/ UNCHANGED << outcome, raised_in >>
               \/ /\ raised_in' = "generate"
                  /\ UNCHANGED outcome
    /\ UNCHANGED << settings, index_files, vector_store, metrics, query,
                    top_k, retrieval_results, reranked_results, rows_at_start,
                    n_calls, n_answers, recorded, metrics_lock,
                    insert_failed >>

\* pipeline.py:42-46,95-118, generator.py:18-26,40-72: the generator is
\* built on first use (no API key: RuntimeError) and sends one chat
\* completion, which may raise; the Answer is built from its reply.
generate_stage ==
    /\ pc = "generate"
    /\ IF generator = None /\ ~settings.api_key
       THEN /\ outcome' = "RuntimeError"
            /\ raised_in' = "generate"
            /\ pc' = "done"
            /\ UNCHANGED << generator, calls, answer >>
       ELSE /\ generator' = "Generator"
            /\ calls' = Append(calls, Call("chat", Len(reranked_results)))
            /\ \/ /\ pc' = "record"
                  /\ answer' = Some(Answer(query, reranked_results))
                  /\ UNCHANGED << outcome, raised_in >>
               \/ /\ pc' = "done"
                  /\ outcome' = "ExternalError"
                  /\ raised_in' = "generate"
                  /\ UNCHANGED answer
    /\ UNCHANGED << settings, index_files, vector_store, metrics, query,
                    top_k, retrieval_results, reranked_results, rows_at_start,
                    n_calls, n_answers, recorded, metrics_lock,
                    insert_failed >>

\* pipeline.py:120-126, metrics.py:55-68: answer() calls record(), which
\* takes the write lock
record_stage ==
    /\ pc = "record"
    /\ calls' = Append(calls, Call("record", Len(reranked_results)))
    /\ ~metrics_lock
    /\ metrics_lock' = TRUE
    /\ pc' = "insert"
    /\ UNCHANGED << settings, index_files, vector_store, generator, metrics,
                    query, top_k, retrieval_results, reranked_results,
                    outcome, rows_at_start, n_calls, n_answers, recorded,
                    answer, insert_failed, raised_in >>

\* variant: a failure of the insert reaches answer() and its caller
insert_stage_raising ==
    /\ pc = "insert"
    /\ \/ /\ metrics' = insert_row(metrics, query, Len(reranked_results),
                                   n_calls)
          /\ recorded' = Append(recorded, n_calls)
          /\ outcome' = "Answer"
          /\ n_answers' = n_answers + 1
          /\ UNCHANGED insert_failed
       \/ /\ insert_failed' = TRUE
          /\ outcome' = "sqlite3.Error"
          /\ UNCHANGED << metrics, recorded, n_answers >>
    /\ metrics_lock' = FALSE
    /\ pc' = "done"
    /\ UNCHANGED << settings, index_files, vector_store, generator, query,
                    top_k, retrieval_results, reranked_results, calls,
                    rows_at_start, n_calls, answer, raised_in >>

\* metrics.py:68-81, pipeline.py:133: inside the lock the row is inserted
\* and committed, or the failure is logged and swallowed; the lock is
\* released on the way out and answer() returns the Answer.
insert_stage ==
    /\ pc = "insert"
    /\ \/ /\ metrics' = insert_row(metrics, query, Len(reranked_results),
                                   n_calls)
          /\ recorded' = Append(recorded, n_calls)
          /\ UNCHANGED insert_failed
       \/ /\ insert_failed' = TRUE
          /\ UNCHANGED << metrics, recorded >>
    /\ metrics_lock' = FALSE
    /\ outcome' = "Answer"
    /\ n_answers' = n_answers + 1
    /\ pc' = "done"
    /\ UNCHANGED << settings, index_files, vector_store, generator, query,
                    top_k, retrieval_results, reranked_results, calls,
                    rows_at_start, n_calls, answer, raised_in >>

\* The caller has the Answer or the exception and the call's locals are
\* gone; the next call may start.
answer_return ==
    /\ pc = "done"
    /\ pc' = "idle"
    /\ query' = <<>>
    /\ top_k' = Nil
    /\ retrieval_results' = <<>>
    /\ reranked_results' = <<>>
    /\ outcome' = None
    /\ calls' = <<>>
    /\ rows_at_start' = Len(metrics)
    /\ answer' = Nil
    /\ insert_failed' = FALSE
    /\ raised_in' = None
    /\ UNCHANGED << settings, index_files, vector_store, generator, metrics,
                    n_calls, n_answers, recorded, metrics_lock >>


\* ------------------------------------------------------- embedding service
VARIABLES
    model_loaded,       \* EmbeddingService._model is not None
    cache,              \* EmbeddingService._cache: key -> vector
    cache_dirty,        \* EmbeddingService._cache_dirty
    cache_file,         \* the snapshot at _cache_path: Nil or Some(dict)
    epc,                \* position of the embed_texts() call in flight
    is_query,           \* the call in flight is embed_query(text)
    texts_list,         \* embed_texts(): texts_list
    embeddings,         \* embed_texts(): embeddings (Nil where missing)
    missing_texts,      \* embed_texts(): missing_texts
    missing_indices,    \* embed_texts(): missing_indices (1-based here)
    new_embeds,         \* embed_texts(): new_embeds
    result,             \* the value returned to the caller
    e_outcome,          \* "ok" or the exception the caller got
    encode_log,         \* batches given to model.encode by the call in flight
    cache_at_start,     \* history: the cache when the call started
    prev,               \* history: the previous call of this service
    n_embed_calls       \* history: calls started

embed_vars == << model_loaded, cache, cache_dirty, cache_file, epc, is_query,
                 texts_list, embeddings, missing_texts, missing_indices,
                 new_embeds, result, e_outcome, encode_log, cache_at_start,
                 prev, n_embed_calls >>

Texts == {"a", "b"}

TextLists == UNION { [1 .. n -> Texts] : n \in 0 .. MaxLen }

\* embedding_service.py:94-97  _hash_text: the sha256 hex digest of the text,
\* one key per distinct text
hash_text(t) == << "sha256", t >>

\* The vectors model.encode may give for text t. encode pads each sub-batch
\* of 8 to its longest member and runs in fp16, so the floats of one text
\* are not the same in every batch and batch position: a vector is the text
\* it encodes and one of the roundings.
Roundings == {"x", "y"}

VectorsOf(t) == { << t, r >> : r \in Roundings }

\* model.encode(batch): one vector per text of the batch, in order
EncodeOutputs(batch) ==
    { v \in [DOMAIN batch ->
                UNION { VectorsOf(batch[i]) : i \in DOMAIN batch }] :
        \A i \in DOMAIN batch : v[i] \in VectorsOf(batch[i]) }

\* dict assignment d[k] = v
dict_put(d, k, v) ==
    [x \in DOMAIN d \cup {k} |-> IF x = k THEN v ELSE d[x]]

EmptyDict == [x \in {} |-> Nil]

\* numpy's reshape with one unknown dimension (-1): the known dimensions'
\* product must be non-zero and divide the array's size
reshape_unknown_dim(size, known) ==
    IF known = 0 \/ size % known # 0
    THEN [error |-> "ValueError", value |-> Nil]
    ELSE [error |-> None, value |-> Some(size \div known)]

\* embedding_service.py:115-116  np.array([]).reshape(0, -1)
empty_result == reshape_unknown_dim(0, 0)

\* embedding_service.py:123-132: what the cache holds for each text
lookup_embeddings(c, texts) ==
    [i \in DOMAIN texts |->
        IF hash_text(texts[i]) \in DOMAIN c THEN c[hash_text(texts[i])]
        ELSE Nil]

RECURSIVE indices_where_nil(_, _)
indices_where_nil(embs, i) ==
    IF i > Len(embs) THEN <<>>
    ELSE IF embs[i] = Nil THEN << i >> \o indices_where_nil(embs, i + 1)
    ELSE indices_where_nil(embs, i + 1)

\* embedding_service.py:129-132: the positions of the misses, in input order
missing_indices_of(embs) == indices_where_nil(embs, 1)

\* embedding_service.py:140-145: the loop over new_embeds, offsets in order
RECURSIVE update_loop(_, _, _, _, _)
update_loop(st, embeds, indices, texts, offset) ==
    IF offset > Len(embeds) THEN st
    ELSE LET target_idx == indices[offset]
             cache_key == hash_text(texts[target_idx])
         IN  update_loop(
                 [embeddings |->
                      [st.embeddings EXCEPT ![target_idx] = embeds[offset]],
                  cache |-> dict_put(st.cache, cache_key, embeds[offset])],
                 embeds, indices, texts, offset + 1)

NoPrev == [ok |-> FALSE, texts |-> <<>>, result |-> <<>>, is_query |-> FALSE]

EmbedInit ==
    /\ model_loaded = FALSE
    /\ cache = EmptyDict
    /\ cache_dirty = FALSE
    /\ cache_file = Nil
    /\ epc = "idle"
    /\ is_query = FALSE
    /\ texts_list = <<>>
    /\ embeddings = <<>>
    /\ missing_texts = <<>>
    /\ missing_indices = <<>>
    /\ new_embeds = <<>>
    /\ result = <<>>
    /\ e_outcome = None
    /\ encode_log = <<>>
    /\ cache_at_start = EmptyDict
    /\ prev = NoPrev
    /\ n_embed_calls = 0

\* embedding_service.py:20-29,65-74  a new EmbeddingService over the same
\* cache path: the snapshot is loaded when there is one; one that cannot be
\* read gives an empty cache.
embed_restart ==
    /\ epc = "idle"
    /\ n_embed_calls > 0
    /\ model_loaded' = FALSE
    /\ cache_dirty' = FALSE
    /\ \/ cache' = IF cache_file = Nil THEN EmptyDict ELSE Val(cache_file)
       \/ cache_file # Nil /\ cache' = EmptyDict
    /\ prev' = NoPrev
    /\ UNCHANGED << cache_file, epc, is_query, texts_list, embeddings,
                    missing_texts, missing_indices, new_embeds, result,
                    e_outcome, encode_log, cache_at_start, n_embed_calls >>

\* embedding_service.py:112-116 embed_texts(texts), 151-153 embed_query(q):
\* entry; the empty list takes the reshape of the empty array.
embed_start(texts, q) ==
    /\ epc = "idle"
    /\ n_embed_calls < MaxEmbedCalls
    /\ q => Len(texts) = 1
    /\ n_embed_calls' = n_embed_calls + 1
    /\ is_query' = q
    /\ texts_list' = texts
    /\ cache_at_start' = cache
    /\ encode_log' = <<>>
    /\ IF texts = <<>>
       THEN IF empty_result.error # None
            THEN e_outcome' = empty_result.error /\ result' = <<>>
            ELSE e_outcome' = "ok" /\ result' = <<>>
       ELSE e_outcome' = None /\ result' = <<>>
    /\ epc' = IF texts = <<>> THEN "done" ELSE "lookup"
    /\ UNCHANGED << model_loaded, cache, cache_dirty, cache_file, embeddings,
                    missing_texts, missing_indices, new_embeds, prev >>

\* embedding_service.py:118-135: the cache is read for every text
embed_lookup ==
    /\ epc = "lookup"
    /\ LET embs == lookup_embeddings(cache, texts_list)
           idxs == missing_indices_of(embs)
       IN  /\ embeddings' = embs
           /\ missing_indices' = idxs
           /\ missing_texts' = [o \in DOMAIN idxs |-> texts_list[idxs[o]]]
           /\ epc' = IF idxs # <<>> THEN "embed" ELSE "return"
    /\ UNCHANGED << model_loaded, cache, cache_dirty, cache_file, is_query,
                    texts_list, new_embeds, result, e_outcome, encode_log,
                    cache_at_start, prev, n_embed_calls >>

\* variant: encode is called once per missing text
embed_batch_per_miss ==
    /\ epc = "embed"
    /\ model_loaded' = TRUE
    /\ encode_log' = encode_log \o
                     [o \in DOMAIN missing_texts |-> << missing_texts[o] >>]
    /\ \E v \in EncodeOutputs(missing_texts) :
          new_embeds' = v /\ epc' = "update"
    /\ UNCHANGED << cache, cache_dirty, cache_file, is_query, texts_list,
                    embeddings, missing_texts, missing_indices, result,
                    e_outcome, cache_at_start, prev, n_embed_calls >>

\* variant: the vectors encode gave before it failed are cached
embed_batch_keeps_partial ==
    /\ epc = "embed"
    /\ model_loaded' = TRUE
    /\ encode_log' = Append(encode_log, missing_texts)
    /\ \/ \E v \in EncodeOutputs(missing_texts) :
             /\ new_embeds' = v
             /\ epc' = "update"
             /\ UNCHANGED << e_outcome, cache, cache_dirty >>
       \/ /\ e_outcome' = "ExternalError"
          /\ epc' = "done"
          /\ \E v \in VectorsOf(missing_texts[1]) :
                cache' = dict_put(cache, hash_text(missing_texts[1]), v)
          /\ cache_dirty' = TRUE
          /\ UNCHANGED new_embeds
    /\ UNCHANGED << cache_file, is_query, texts_list, embeddings,
                    missing_texts, missing_indices, result, cache_at_start,
                    prev, n_embed_calls >>

\* embedding_service.py:136,99-110  _embed_batch(missing_texts): the model is
\* loaded on first use and encode is called once with the whole batch; the
\* call may raise.
embed_batch ==
    /\ epc = "embed"
    /\ model_loaded' = TRUE
    /\ encode_log' = Append(encode_log, missing_texts)
    /\ \/ \E v \in EncodeOutputs(missing_texts) :
             /\ new_embeds' = v
             /\ epc' = "update"
             /\ UNCHANGED e_outcome
       \/ /\ e_outcome' = "ExternalError"
          /\ epc' = "done"
          /\ UNCHANGED new_embeds
    /\ UNCHANGED << cache, cache_dirty, cache_file, is_query, texts_list,
                    embeddings, missing_texts, missing_indices, result,
                    cache_at_start, prev, n_embed_calls >>

\* embedding_service.py:139-145: results are put in place and in the cache
embed_update ==
    /\ epc = "update"
    /\ LET st == update_loop([embeddings |-> embeddings, cache |-> cache],
                             new_embeds, missing_indices, texts_list, 1)
       IN  /\ embeddings' = st.embeddings
           /\ cache' = st.cache
    /\ cache_dirty' = (cache_dirty \/ Len(new_embeds) > 0)
    /\ epc' = "save"
    /\ UNCHANGED << model_loaded, cache_file, is_query, texts_list,
                    missing_texts, missing_indices, new_embeds, result,
                    e_outcome, encode_log, cache_at_start, prev,
                    n_embed_calls >>

\* embedding_service.py:147,76-92  _save_cache: the snapshot is rewritten
\* when the cache is dirty; a failed write is logged and leaves it dirty.
embed_save ==
    /\ epc = "save"
    /\ IF cache_dirty
       THEN \/ cache_file' = Some(cache) /\ cache_dirty' = FALSE
            \/ UNCHANGED << cache_file, cache_dirty >>
       ELSE UNCHANGED << cache_file, cache_dirty >>
    /\ epc' = "return"
    /\ UNCHANGED << model_loaded, cache, is_query, texts_list, embeddings,
                    missing_texts, missing_indices, new_embeds, result,
                    e_outcome, encode_log, cache_at_start, prev,
                    n_embed_calls >>

\* embedding_service.py:149 np.vstack(embeddings); 153 embed_query takes [0]
embed_return ==
    /\ epc = "return"
    /\ result' = IF is_query THEN embeddings[1] ELSE embeddings
    /\ e_outcome' = "ok"
    /\ epc' = "done"
    /\ UNCHANGED << model_loaded, cache, cache_dirty, cache_file, is_query,
                    texts_list, embeddings, missing_texts, missing_indices,
                    new_embeds, encode_log, cache_at_start, prev,
                    n_embed_calls >>

\* The caller has the vectors or the exception; the next call may start.
embed_finish ==
    /\ epc = "done"
    /\ prev' = [ok |-> e_outcome = "ok", texts |-> texts_list,
                result |-> result, is_query |-> is_query]
    /\ epc' = "idle"
    /\ is_query' = FALSE
    /\ texts_list' = <<>>
    /\ embeddings' = <<>>
    /\ missing_texts' = <<>>
    /\ missing_indices' = <<>>
    /\ new_embeds' = <<>>
    /\ result' = <<>>
    /\ e_outcome' = None
    /\ encode_log' = <<>>
    /\ cache_at_start' = cache
    /\ UNCHANGED << model_loaded, cache, cache_dirty, cache_file,
                    n_embed_calls >>

\* ---------------------------------------------------------- specifications
\* ----------------------------------------------------------------- chunker
MaxTextLen == 5

MaxCorpusTextLen == 2

MaxChunkSize == 3

VARIABLES
    ck_pc,              \* position in chunk_corpus(): "corpus", "loop", "done"
    documents,          \* chunk_corpus(): documents
    chunk_size,         \* chunk_corpus(): chunk_size
    overlap,            \* chunk_corpus(): overlap
    all_chunks,         \* chunk_corpus(): all_chunks
    doc_i,              \* documents taken by the loop of chunk_corpus()
    sentences,          \* chunk_document(): sentences
    s_i,                \* position of the loop over sentences
    chunks,             \* chunk_document(): chunks
    text_cursor,        \* chunk_document(): text_cursor
    chunk_index,        \* chunk_document(): chunk_index
    current_chunk,      \* chunk_document(): current_chunk
    current_length,     \* chunk_document(): current_length
    carry,              \* history: leading sentences of current_chunk kept
                        \* from the window closed last
    windows             \* history: for each of chunks, the window it was
                        \* made of and how many of its sentences were kept
                        \* from the window before

chunk_vars == << ck_pc, documents, chunk_size, overlap, all_chunks, doc_i,
                 sentences, s_i, chunks, text_cursor, chunk_index,
                 current_chunk, current_length, carry, windows >>

\* chunking.py:9  the class [。！？?!]; the three full-width terminators act
\* as the two written here do
Terminators == {"?", "!"}

\* the characters of the documents: a letter, a terminator, a blank
Chars == {"a", "!", " "}

TextsUpTo(n) == UNION { [1 .. m -> Chars] : m \in 0 .. n }

\* two sentences of 5 and 6 characters, each ending with a terminator
\* ("天气很好。我们去公园。", one letter for each character)
TwoSentenceText ==
    << "a", "b", "c", "d", "!", "e", "f", "g", "h", "i", "!" >>

RawDocument(id, text) == [doc_id |-> id, text |-> text]

\* data_ingestion.py:86: one doc_id for each path
DocIds == << << "d", "1" >>, << "d", "2" >> >>

\* the corpora given to chunk_corpus(): none, one document, or two short
\* ones, with distinct doc_ids
Corpora ==
    {<<>>}
    \cup { << RawDocument(DocIds[1], t) >> : t \in TextsUpTo(MaxTextLen) }
    \cup { << RawDocument(DocIds[1], t), RawDocument(DocIds[2], u) >> :
             t \in TextsUpTo(MaxCorpusTextLen),
             u \in TextsUpTo(MaxCorpusTextLen) }

\* chunking.py:16  SENTENCE_SEP_PATTERN.split(text): the text is cut after
\* every terminator, the end of the text included
RECURSIVE pattern_split(_, _)
pattern_split(text, part) ==
    IF text = <<>> THEN << part >>
    ELSE IF Head(text) \in Terminators
         THEN << Append(part, Head(text)) >> \o pattern_split(Tail(text), <<>>)
         ELSE pattern_split(Tail(text), Append(part, Head(text)))

\* chunking.py:20  SENTENCE_SEP_PATTERN.search(part): some position of the
\* part follows a terminator
pattern_search(part) == \E i \in DOMAIN part : part[i] \in Terminators

\* chunking.py:16-22  the loop of _split_sentences over the parts
RECURSIVE split_loop(_, _, _, _)
split_loop(parts, i, buffer, acc) ==
    IF i > Len(parts) THEN [sentences |-> acc, buffer |-> buffer]
    ELSE IF strip(parts[i]) = <<>>
         THEN split_loop(parts, i + 1, buffer, acc)
         ELSE LET b == buffer \o parts[i]
              IN  IF pattern_search(parts[i])
                  THEN split_loop(parts, i + 1, <<>>, Append(acc, strip(b)))
                  ELSE split_loop(parts, i + 1, b, acc)

\* chunking.py:12-25  _split_sentences
split_sentences(text) ==
    LET r == split_loop(pattern_split(text, <<>>), 1, <<>>, <<>>)
        found == IF strip(r.buffer) # <<>>
                 THEN Append(r.sentences, strip(r.buffer))
                 ELSE r.sentences
    IN  IF found # <<>> THEN found ELSE << text >>

\* "".join(current_chunk)
RECURSIVE join(_)
join(ss) == IF ss = <<>> THEN <<>> ELSE Head(ss) \o join(Tail(ss))

\* sum(len(s) for s in current_chunk)
RECURSIVE sum_len(_)
sum_len(ss) == IF ss = <<>> THEN 0 ELSE Len(Head(ss)) + sum_len(Tail(ss))

\* the decimal digits of n
RECURSIVE digits(_)
digits(n) ==
    LET d == << "0", "1", "2", "3", "4", "5", "6", "7", "8", "9" >>
    IN  IF n < 10 THEN << d[n + 1] >>
        ELSE Append(digits(n \div 10), d[(n % 10) + 1])

RECURSIVE zero_pad(_, _)
zero_pad(s, width) ==
    IF Len(s) >= width THEN s ELSE zero_pad(<< "0" >> \o s, width)

\* variant: the id is the doc_id alone
chunk_id_no_index(id, index) == id

\* chunking.py:53,83  f"{document.doc_id}_{chunk_index:05d}"
chunk_id_of(id, index) == id \o << "_" >> \o zero_pad(digits(index), 5)

\* variant: the offset of the window's end
chunk_start_at_cursor(cursor, length) == cursor

\* chunking.py:51,81  start = max(0, text_cursor - current_length)
chunk_start(cursor, length) == Max(0, cursor - length)

\* chunking.py:50-66,80-96  the DocumentChunk made of the current window
DocumentChunk(document, index, window, cursor, length) ==
    LET chunk_text == strip(join(window))
        start == chunk_start(cursor, length)
    IN  [doc_id |-> document.doc_id,
         chunk_id |-> chunk_id_of(document.doc_id, index),
         text |-> chunk_text,
         start_index |-> start,
         end_index |-> start + Len(chunk_text),
         chunk_index |-> index]

\* variant: the window is closed only once it is over the size itself
window_full_late(length, sentence_length, size, window) ==
    length > size /\ window # <<>>

\* variant: the window is closed one character later
window_full_slack(length, sentence_length, size, window) ==
    length + sentence_length > size + 1 /\ window # <<>>

\* variant: a sentence over the size joins the window
window_full_fitting(length, sentence_length, size, window) ==
    length + sentence_length > size /\ sentence_length <= size /\ window # <<>>

\* chunking.py:49  current_length + sentence_length > chunk_size and
\* current_chunk
window_full(length, sentence_length, size, window) ==
    length + sentence_length > size /\ window # <<>>

\* variant: one sentence is dropped, whatever is left
shrink_once(window, length, keep) == Tail(window)

\* chunking.py:70-72  while current_chunk and current_length > overlap:
\* pop(0)
RECURSIVE shrink(_, _, _)
shrink(window, length, keep) ==
    IF window # <<>> /\ length > keep
    THEN shrink(Tail(window), length - Len(Head(window)), keep)
    ELSE window

ChunkInit ==
    /\ ck_pc = "corpus"
    /\ \/ /\ documents \in Corpora
          /\ chunk_size \in 1 .. MaxChunkSize
          /\ overlap \in 0 .. chunk_size
       \/ /\ documents = << RawDocument(DocIds[1], TwoSentenceText) >>
          /\ chunk_size \in {10, 11}
          /\ overlap = 2
    /\ all_chunks = <<>>
    /\ doc_i = 0
    /\ sentences = <<>>
    /\ s_i = 1
    /\ chunks = <<>>
    /\ text_cursor = 0
    /\ chunk_index = 0
    /\ current_chunk = <<>>
    /\ current_length = 0
    /\ carry = 0
    /\ windows = <<>>

\* chunking.py:110-111,36-45  chunk_corpus takes the next document and
\* chunk_document splits it into sentences
chunk_document_start ==
    /\ ck_pc = "corpus"
    /\ doc_i < Len(documents)
    /\ doc_i' = doc_i + 1
    /\ sentences' = split_sentences(documents[doc_i + 1].text)
    /\ ck_pc' = IF sentences' = <<>> THEN "corpus" ELSE "loop"
    /\ s_i' = 1
    /\ chunks' = <<>>
    /\ text_cursor' = 0
    /\ chunk_index' = 0
    /\ current_chunk' = <<>>
    /\ current_length' = 0
    /\ carry' = 0
    /\ windows' = <<>>
    /\ UNCHANGED << documents, chunk_size, overlap, all_chunks >>

\* chunking.py:47-77  one pass of the loop over the sentences
sentence_step ==
    /\ ck_pc = "loop"
    /\ s_i <= Len(sentences)
    /\ LET sentence == sentences[s_i]
           sentence_length == Len(sentence)
           kept == shrink(current_chunk, current_length, overlap)
       IN  IF window_full(current_length, sentence_length, chunk_size,
                          current_chunk)
           THEN /\ chunks' = Append(chunks,
                        DocumentChunk(documents[doc_i], chunk_index,
                                      current_chunk, text_cursor,
                                      current_length))
                /\ windows' = Append(windows, [sentences |-> current_chunk,
                                               carry |-> carry])
                /\ chunk_index' = chunk_index + 1
                /\ current_chunk' = Append(kept, sentence)
                /\ current_length' = sum_len(kept) + sentence_length
                /\ carry' = Len(kept)
           ELSE /\ current_chunk' = Append(current_chunk, sentence)
                /\ current_length' = current_length + sentence_length
                /\ UNCHANGED << chunks, windows, chunk_index, carry >>
    /\ text_cursor' = text_cursor + Len(sentences[s_i])
    /\ s_i' = s_i + 1
    /\ UNCHANGED << ck_pc, documents, chunk_size, overlap, all_chunks, doc_i,
                    sentences >>

\* chunking.py:79-98,116  the window left after the loop is the last
\* chunk; chunk_corpus extends all_chunks with the document's chunks
chunk_document_return ==
    /\ ck_pc = "loop"
    /\ s_i > Len(sentences)
    /\ IF current_chunk # <<>>
       THEN /\ chunks' = Append(chunks,
                    DocumentChunk(documents[doc_i], chunk_index,
                                  current_chunk, text_cursor, current_length))
            /\ windows' = Append(windows, [sentences |-> current_chunk,
                                           carry |-> carry])
       ELSE UNCHANGED << chunks, windows >>
    /\ all_chunks' = all_chunks \o chunks'
    /\ ck_pc' = "corpus"
    /\ UNCHANGED << documents, chunk_size, overlap, doc_i, sentences, s_i,
                    text_cursor, chunk_index, current_chunk, current_length,
                    carry >>

\* chunking.py:117  return all_chunks
chunk_corpus_return ==
    /\ ck_pc = "corpus"
    /\ doc_i = Len(documents)
    /\ ck_pc' = "done"
    /\ UNCHANGED << documents, chunk_size, overlap, all_chunks, doc_i,
                    sentences, s_i, chunks, text_cursor, chunk_index,
                    current_chunk, current_length, carry, windows >>

\* no chunk_corpus() call in progress or to come
ChunkQuiet ==
    /\ ck_pc = "done"
    /\ documents = <<>>
    /\ chunk_size = 1
    /\ overlap = 0
    /\ all_chunks = <<>>
    /\ doc_i = 0
    /\ sentences = <<>>
    /\ s_i = 1
    /\ chunks = <<>>
    /\ text_cursor = 0
    /\ chunk_index = 0
    /\ current_chunk = <<>>
    /\ current_length = 0
    /\ carry = 0
    /\ windows = <<>>

\* ---------------------------------------------------------------------------
\* The embedding service called from several threads
\* (embedding_service.py). One EmbeddingService object; each thread is in
\* one call of embed_texts or of the model property at a time, and the
\* threads interleave between statements and wherever a lock is taken.
\* ---------------------------------------------------------------------------

MaxThreadCalls == 2

VARIABLES model, target_devices, model_lock, cache_lock, shared_cache,
          shared_dirty, snapshot, tpc, tkind, ttexts, tembeddings,
          tmissing, tnew, toutcome, n_loads, reassigned, twrote,
          n_thread_calls

ethread_vars == << model, target_devices, model_lock, cache_lock,
                   shared_cache, shared_dirty, snapshot, tpc, tkind, ttexts,
                   tembeddings, tmissing, tnew, toutcome, n_loads,
                   reassigned, twrote, n_thread_calls >>

Threads == {"t1", "t2"}

\* the lists a thread's call is made with: none, one or two of the texts,
\* the same text twice included
ThreadTextLists ==
    {<<>>} \cup { << x >> : x \in Texts }
           \cup { << x, y >> : x \in Texts, y \in Texts }

Keys == { hash_text(t) : t \in Texts }

\* The vector of a text, by where it came from: the floats encode gives
\* for one text differ from call to call (VectorsOf), and a vector is here
\* the text and the thread whose encode call computed it, or "file" for
\* one read from the snapshot.
vector_by(text, who) == << text, who >>

\* f[t] = v for thread t only
only(f, t, v) == [f EXCEPT ![t] = v]

\* embedding_service.py:140-145: the keys the loop assigns, one per offset
assigned_keys(indices, texts) ==
    [o \in DOMAIN indices |-> hash_text(texts[indices[o]])]

count_in(seq, k) == Cardinality({ o \in DOMAIN seq : seq[o] = k })

\* embedding_service.py:20-29  __init__: no model, both locks free, the
\* cache is what the snapshot file holds (nothing, or one text's vector)
ThreadsInit ==
    /\ model = None
    /\ target_devices = "default"
    /\ model_lock = None
    /\ cache_lock = None
    /\ \E c \in {EmptyDict, dict_put(EmptyDict, hash_text("a"),
                                      vector_by("a", "file"))} :
          /\ shared_cache = c
          /\ snapshot = IF c = EmptyDict THEN Nil ELSE Some(c)
    /\ shared_dirty = FALSE
    /\ tpc = [t \in Threads |-> "idle"]
    /\ tkind = [t \in Threads |-> None]
    /\ ttexts = [t \in Threads |-> <<>>]
    /\ tembeddings = [t \in Threads |-> <<>>]
    /\ tmissing = [t \in Threads |-> <<>>]
    /\ tnew = [t \in Threads |-> <<>>]
    /\ toutcome = [t \in Threads |-> None]
    /\ n_loads = 0
    /\ reassigned = {}
    /\ twrote = [t \in Threads |-> Nil]
    /\ n_thread_calls = 0

\* embedding_service.py:112-116  embed_texts(texts) is called by thread t
t_embed_texts(t, texts) ==
    /\ tpc[t] = "idle"
    /\ n_thread_calls < MaxThreadCalls
    /\ n_thread_calls' = n_thread_calls + 1
    /\ tkind' = only(tkind, t, "embed")
    /\ ttexts' = only(ttexts, t, texts)
    /\ tembeddings' = only(tembeddings, t, <<>>)
    /\ tmissing' = only(tmissing, t, <<>>)
    /\ tnew' = only(tnew, t, <<>>)
    /\ IF texts = <<>>
       THEN /\ toutcome' = only(toutcome, t,
                                IF empty_result.error # None
                                THEN empty_result.error ELSE "ok")
            /\ tpc' = only(tpc, t, "done")
       ELSE /\ toutcome' = only(toutcome, t, None)
            /\ tpc' = only(tpc, t, "lookup")
    /\ UNCHANGED << model, target_devices, model_lock, cache_lock,
                    shared_cache, shared_dirty, snapshot, n_loads,
                    reassigned, twrote >>

\* embedding_service.py:155-159  the model property is read by thread t
t_model_property(t) ==
    /\ tpc[t] = "idle"
    /\ n_thread_calls < MaxThreadCalls
    /\ n_thread_calls' = n_thread_calls + 1
    /\ tkind' = only(tkind, t, "model")
    /\ ttexts' = only(ttexts, t, <<>>)
    /\ tembeddings' = only(tembeddings, t, <<>>)
    /\ tmissing' = only(tmissing, t, <<>>)
    /\ tnew' = only(tnew, t, <<>>)
    /\ toutcome' = only(toutcome, t, None)
    /\ tpc' = only(tpc, t, "load_check")
    /\ UNCHANGED << model, target_devices, model_lock, cache_lock,
                    shared_cache, shared_dirty, snapshot, n_loads,
                    reassigned, twrote >>

\* embedding_service.py:122  with self._cache_lock: the lock is taken
t_lookup_acquire(t) ==
    /\ tpc[t] = "lookup"
    /\ cache_lock = None
    /\ cache_lock' = t
    /\ tpc' = only(tpc, t, "lookup_locked")
    /\ UNCHANGED << model, target_devices, model_lock, shared_cache,
                    shared_dirty, snapshot, tkind, ttexts, tembeddings,
                    tmissing, tnew, toutcome, n_loads, reassigned, twrote,
                    n_thread_calls >>

\* variant: the lock of the lookup is kept while the missing texts are
\* embedded
t_lookup_holding(t) ==
    /\ tpc[t] = "lookup_locked"
    /\ LET embs == lookup_embeddings(shared_cache, ttexts[t])
           idxs == missing_indices_of(embs)
       IN  /\ tembeddings' = only(tembeddings, t, embs)
           /\ tmissing' = only(tmissing, t, idxs)
           /\ tpc' = only(tpc, t, IF idxs # <<>> THEN "load_check"
                                  ELSE "return")
    /\ cache_lock' = IF missing_indices_of(lookup_embeddings(shared_cache,
                                                             ttexts[t])) = <<>>
                   THEN None ELSE cache_lock
    /\ UNCHANGED << model, target_devices, model_lock, shared_cache,
                    shared_dirty, snapshot, tkind, ttexts, tnew, toutcome,
                    n_loads, reassigned, twrote, n_thread_calls >>

\* embedding_service.py:123-135: the cache is read for every text and the
\* lock is released; with nothing missing the call goes to its return (149)
t_lookup(t) ==
    /\ tpc[t] = "lookup_locked"
    /\ LET embs == lookup_embeddings(shared_cache, ttexts[t])
           idxs == missing_indices_of(embs)
       IN  /\ tembeddings' = only(tembeddings, t, embs)
           /\ tmissing' = only(tmissing, t, idxs)
           /\ tpc' = only(tpc, t, IF idxs # <<>> THEN "load_check"
                                  ELSE "return")
    /\ cache_lock' = None
    /\ UNCHANGED << model, target_devices, model_lock, shared_cache,
                    shared_dirty, snapshot, tkind, ttexts, tnew, toutcome,
                    n_loads, reassigned, twrote, n_thread_calls >>

\* where _load_model returns to: _embed_batch goes on to encode (101-103),
\* the model property returns the model (158-159)
after_load(t) == IF tkind[t] = "model" THEN "return" ELSE "encode"

\* embedding_service.py:33-34  _load_model: the first check, no lock held
t_load_check(t) ==
    /\ tpc[t] = "load_check"
    /\ tpc' = only(tpc, t, IF model # None THEN after_load(t)
                           ELSE "load_acquire")
    /\ UNCHANGED << model, target_devices, model_lock, cache_lock,
                    shared_cache, shared_dirty, snapshot, tkind, ttexts,
                    tembeddings, tmissing, tnew, toutcome, n_loads,
                    reassigned, twrote, n_thread_calls >>

\* embedding_service.py:36  with self._model_lock: the lock is taken
t_load_acquire(t) ==
    /\ tpc[t] = "load_acquire"
    /\ model_lock = None
    /\ model_lock' = t
    /\ tpc' = only(tpc, t, "load_recheck")
    /\ UNCHANGED << model, target_devices, cache_lock, shared_cache,
                    shared_dirty, snapshot, tkind, ttexts, tembeddings,
                    tmissing, tnew, toutcome, n_loads, reassigned, twrote,
                    n_thread_calls >>

\* embedding_service.py:38-39: the second check, under the lock; a loaded
\* model ends the with block
t_load_recheck(t) ==
    /\ tpc[t] = "load_recheck"
    /\ IF model # None
       THEN /\ model_lock' = None
            /\ tpc' = only(tpc, t, after_load(t))
       ELSE /\ UNCHANGED model_lock
            /\ tpc' = only(tpc, t, "load_construct")
    /\ UNCHANGED << model, target_devices, cache_lock, shared_cache,
                    shared_dirty, snapshot, tkind, ttexts, tembeddings,
                    tmissing, tnew, toutcome, n_loads, reassigned, twrote,
                    n_thread_calls >>

\* embedding_service.py:40-60: FlagEmbedding is imported and
\* FlagAutoModel.from_finetuned builds the model, which is assigned to
\* self._model; a failed import raises RuntimeError and a failed
\* construction its own exception, either leaving the with block.
t_load_construct(t) ==
    /\ tpc[t] = "load_construct"
    /\ \/ /\ model' = "model"
          /\ n_loads' = n_loads + 1
          /\ tpc' = only(tpc, t, "load_configure")
          /\ UNCHANGED << model_lock, toutcome >>
       \/ /\ \E e \in {"RuntimeError", "ExternalError"} :
                toutcome' = only(toutcome, t, e)
          /\ model_lock' = None
          /\ tpc' = only(tpc, t, "done")
          /\ UNCHANGED << model, n_loads >>
    /\ UNCHANGED << target_devices, cache_lock, shared_cache, shared_dirty,
                    snapshot, tkind, ttexts, tembeddings, tmissing, tnew,
                    reassigned, twrote, n_thread_calls >>

\* embedding_service.py:61-63: the model's target_devices are set to the
\* configured device, the with block ends and _load_model returns
t_load_configure(t) ==
    /\ tpc[t] = "load_configure"
    /\ target_devices' = "configured"
    /\ model_lock' = None
    /\ tpc' = only(tpc, t, after_load(t))
    /\ UNCHANGED << model, cache_lock, shared_cache, shared_dirty, snapshot,
                    tkind, ttexts, tembeddings, tmissing, tnew, toutcome,
                    n_loads, reassigned, twrote, n_thread_calls >>

\* embedding_service.py:103  self._model.encode(texts, ...) is entered
t_encode_call(t) ==
    /\ tpc[t] = "encode"
    /\ tpc' = only(tpc, t, "encoding")
    /\ UNCHANGED << model, target_devices, model_lock, cache_lock,
                    shared_cache, shared_dirty, snapshot, tkind, ttexts,
                    tembeddings, tmissing, tnew, toutcome, n_loads,
                    reassigned, twrote, n_thread_calls >>

\* embedding_service.py:103-110,136: encode returns one vector per missing
\* text, or raises
t_encode_return(t) ==
    /\ tpc[t] = "encoding"
    /\ LET batch == [o \in DOMAIN tmissing[t] |-> ttexts[t][tmissing[t][o]]]
       IN  \/ /\ tnew' = only(tnew, t, [o \in DOMAIN batch |->
                                               vector_by(batch[o], t)])
              /\ tpc' = only(tpc, t, "update")
              /\ UNCHANGED toutcome
           \/ /\ toutcome' = only(toutcome, t, "ExternalError")
              /\ tpc' = only(tpc, t, "done")
              /\ UNCHANGED tnew
    /\ UNCHANGED << model, target_devices, model_lock, cache_lock,
                    shared_cache, shared_dirty, snapshot, tkind, ttexts,
                    tembeddings, tmissing, n_loads, reassigned, twrote,
                    n_thread_calls >>

\* embedding_service.py:139  with self._cache_lock: the lock is taken
t_update_acquire(t) ==
    /\ tpc[t] = "update"
    /\ cache_lock = None
    /\ cache_lock' = t
    /\ tpc' = only(tpc, t, "update_locked")
    /\ UNCHANGED << model, target_devices, model_lock, shared_cache,
                    shared_dirty, snapshot, tkind, ttexts, tembeddings,
                    tmissing, tnew, toutcome, n_loads, reassigned, twrote,
                    n_thread_calls >>

\* variant: the update loop does not set the flag
t_update_unflagged(t) ==
    /\ tpc[t] = "update_locked"
    /\ LET st == update_loop([embeddings |-> tembeddings[t],
                              cache |-> shared_cache],
                             tnew[t], tmissing[t], ttexts[t], 1)
           keys == assigned_keys(tmissing[t], ttexts[t])
       IN  /\ tembeddings' = only(tembeddings, t, st.embeddings)
           /\ shared_cache' = st.cache
           /\ reassigned' = reassigned \cup
                  { k \in Keys :
                      \/ count_in(keys, k) > 1
                      \/ count_in(keys, k) = 1 /\ k \in DOMAIN shared_cache }
    /\ UNCHANGED shared_dirty
    /\ cache_lock' = None
    /\ tpc' = only(tpc, t, "save_check")
    /\ UNCHANGED << model, target_devices, model_lock, snapshot, tkind,
                    ttexts, tmissing, tnew, toutcome, n_loads, twrote,
                    n_thread_calls >>

\* embedding_service.py:140-145: every new vector is put in place and
\* assigned to its key in the cache, the flag is set, the lock is released
t_update(t) ==
    /\ tpc[t] = "update_locked"
    /\ LET st == update_loop([embeddings |-> tembeddings[t],
                              cache |-> shared_cache],
                             tnew[t], tmissing[t], ttexts[t], 1)
           keys == assigned_keys(tmissing[t], ttexts[t])
       IN  /\ tembeddings' = only(tembeddings, t, st.embeddings)
           /\ shared_cache' = st.cache
           /\ reassigned' = reassigned \cup
                  { k \in Keys :
                      \/ count_in(keys, k) > 1
                      \/ count_in(keys, k) = 1 /\ k \in DOMAIN shared_cache }
    /\ shared_dirty' = (shared_dirty \/ Len(tnew[t]) > 0)
    /\ cache_lock' = None
    /\ tpc' = only(tpc, t, "save_check")
    /\ UNCHANGED << model, target_devices, model_lock, snapshot, tkind,
                    ttexts, tmissing, tnew, toutcome, n_loads, twrote,
                    n_thread_calls >>

\* embedding_service.py:147,78-79  _save_cache: the first check of the
\* flag, no lock held
t_save_check(t) ==
    /\ tpc[t] = "save_check"
    /\ tpc' = only(tpc, t, IF shared_dirty THEN "save_acquire" ELSE "return")
    /\ UNCHANGED << model, target_devices, model_lock, cache_lock,
                    shared_cache, shared_dirty, snapshot, tkind, ttexts,
                    tembeddings, tmissing, tnew, toutcome, n_loads,
                    reassigned, twrote, n_thread_calls >>

\* embedding_service.py:81  with self._cache_lock: the lock is taken
t_save_acquire(t) ==
    /\ tpc[t] = "save_acquire"
    /\ cache_lock = None
    /\ cache_lock' = t
    /\ tpc' = only(tpc, t, "save_locked")
    /\ UNCHANGED << model, target_devices, model_lock, shared_cache,
                    shared_dirty, snapshot, tkind, ttexts, tembeddings,
                    tmissing, tnew, toutcome, n_loads, reassigned, twrote,
                    n_thread_calls >>

\* what is known of one rewrite of the snapshot file
WriteEvent(t, ok) ==
    [holder |-> cache_lock, dirty |-> shared_dirty, written |-> ok,
     inserted |-> \A i \in DOMAIN ttexts[t] :
                     hash_text(ttexts[t][i]) \in DOMAIN shared_cache]

\* embedding_service.py:86-88: what a write that raised leaves at the cache
\* path: the file as it was (mkdir or open raised), or a file cut short by
\* pickle.dump, from which no entry can be read
FailedWrites(file) == {file, Some(EmptyDict)}

\* variant: the flag is not read again under the lock
t_save_unchecked(t) ==
    /\ tpc[t] = "save_locked"
    /\ \/ /\ snapshot' = Some(shared_cache)
          /\ shared_dirty' = FALSE
          /\ twrote' = only(twrote, t, Some(WriteEvent(t, TRUE)))
       \/ /\ twrote' = only(twrote, t, Some(WriteEvent(t, FALSE)))
          /\ snapshot' \in FailedWrites(snapshot)
          /\ UNCHANGED shared_dirty
    /\ cache_lock' = None
    /\ tpc' = only(tpc, t, "return")
    /\ UNCHANGED << model, target_devices, model_lock, shared_cache, tkind,
                    ttexts, tembeddings, tmissing, tnew, toutcome, n_loads,
                    reassigned, n_thread_calls >>

\* variant: a write that raised clears the flag all the same
t_save_forgets(t) ==
    /\ tpc[t] = "save_locked"
    /\ IF shared_dirty
       THEN \/ /\ snapshot' = Some(shared_cache)
               /\ twrote' = only(twrote, t, Some(WriteEvent(t, TRUE)))
            \/ /\ twrote' = only(twrote, t, Some(WriteEvent(t, FALSE)))
               /\ snapshot' \in FailedWrites(snapshot)
       ELSE UNCHANGED << snapshot, twrote >>
    /\ shared_dirty' = FALSE
    /\ cache_lock' = None
    /\ tpc' = only(tpc, t, "return")
    /\ UNCHANGED << model, target_devices, model_lock, shared_cache, tkind,
                    ttexts, tembeddings, tmissing, tnew, toutcome, n_loads,
                    reassigned, n_thread_calls >>

\* embedding_service.py:82-92: the flag is read again under the lock; when
\* set, the whole cache is written to the file and the flag is cleared, or
\* the write raises, the error is logged and the flag stays set; the lock
\* is released
t_save(t) ==
    /\ tpc[t] = "save_locked"
    /\ IF shared_dirty
       THEN \/ /\ snapshot' = Some(shared_cache)
               /\ shared_dirty' = FALSE
               /\ twrote' = only(twrote, t, Some(WriteEvent(t, TRUE)))
            \/ /\ twrote' = only(twrote, t, Some(WriteEvent(t, FALSE)))
               /\ snapshot' \in FailedWrites(snapshot)
               /\ UNCHANGED shared_dirty
       ELSE UNCHANGED << snapshot, shared_dirty, twrote >>
    /\ cache_lock' = None
    /\ tpc' = only(tpc, t, "return")
    /\ UNCHANGED << model, target_devices, model_lock, shared_cache, tkind,
                    ttexts, tembeddings, tmissing, tnew, toutcome, n_loads,
                    reassigned, n_thread_calls >>

\* embedding_service.py:149 np.vstack(embeddings), or 159 return self._model
t_return(t) ==
    /\ tpc[t] = "return"
    /\ toutcome' = only(toutcome, t, "ok")
    /\ tpc' = only(tpc, t, "done")
    /\ UNCHANGED << model, target_devices, model_lock, cache_lock,
                    shared_cache, shared_dirty, snapshot, tkind, ttexts,
                    tembeddings, tmissing, tnew, n_loads, reassigned,
                    twrote, n_thread_calls >>

\* The caller has its result or its exception; the thread may call again.
t_finish(t) ==
    /\ tpc[t] = "done"
    /\ tpc' = only(tpc, t, "idle")
    /\ tkind' = only(tkind, t, None)
    /\ ttexts' = only(ttexts, t, <<>>)
    /\ tembeddings' = only(tembeddings, t, <<>>)
    /\ tmissing' = only(tmissing, t, <<>>)
    /\ tnew' = only(tnew, t, <<>>)
    /\ toutcome' = only(toutcome, t, None)
    /\ twrote' = only(twrote, t, Nil)
    /\ UNCHANGED << model, target_devices, model_lock, cache_lock,
                    shared_cache, shared_dirty, snapshot, n_loads,
                    reassigned, n_thread_calls >>

\* The service of the other specifications: constructed, never called
ThreadsQuiet ==
    /\ ThreadsInit
    /\ shared_cache = EmptyDict

\* ---------------------------------------------------------------------------
\* The generator (generator.py): one generate_answer() call on each list of
\* contexts and each reply of the chat model.
\* ---------------------------------------------------------------------------

MaxContexts == 2

\* generator.py:90  the excerpt is text.strip()[:200]
ExcerptLimit == 200

VARIABLES gen_pc, gen_contexts, gen_reply, gen_result, gen_outcome

gen_vars == << gen_pc, gen_contexts, gen_reply, gen_result, gen_outcome >>

\* c * n
repeat(c, n) == [i \in 1 .. n |-> c]

\* chunk texts around the excerpt limit, bare and with whitespace around
GenTexts ==
    { repeat(" ", pad) \o repeat("a", n) \o repeat(" ", pad) :
        pad \in {0, 1}, n \in {0, ExcerptLimit, ExcerptLimit + 1} }

\* types.py DocumentChunk as the generator reads it, with the two metadata
\* keys it looks up; a missing source_name is Nil
GenChunks ==
    { [doc_id |-> "d1", chunk_id |-> "d1_00000", text |-> t,
       source_name |-> Nil, source |-> Some("docs/d1.txt")] : t \in GenTexts }
    \cup
    { [doc_id |-> "d2", chunk_id |-> "d2_00001", text |-> t,
       source_name |-> Some("d2.txt"), source |-> Some("docs/d2.txt")] :
        t \in {<<>>, repeat("a", ExcerptLimit + 1)} }

GenContextLists == UNION { [1 .. n -> GenChunks] : n \in 0 .. MaxContexts }

\* what client.chat.completions.create gives: a message content, with or
\* without citation markers of its own, or an exception
ChatReplies == { [raised |-> FALSE, content |-> "text"],
                 [raised |-> FALSE, content |-> "text [2][7]"],
                 [raised |-> TRUE, content |-> ""] }

\* generator.py:86  metadata.get("source_name") or metadata.get("source")
source_of(chunk) ==
    IF chunk.source_name # Nil /\ chunk.source_name # Some("")
    THEN chunk.source_name ELSE chunk.source

\* variant: the excerpt is the whole stripped text
excerpt_whole(text) == strip(text)

\* generator.py:90  result.chunk.text.strip()[:200]
excerpt(text) ==
    SubSeq(strip(text), 1, Min(Len(strip(text)), ExcerptLimit))

\* generator.py:85  f"[{idx}]"
label(idx) == << "[" >> \o digits(idx) \o << "]" >>

\* generator.py:82-93: one citation per context, enumerate(contexts, start=1)
citations_of(contexts) ==
    [idx \in DOMAIN contexts |->
        [label |-> label(idx),
         source |-> source_of(contexts[idx]),
         doc_id |-> contexts[idx].doc_id,
         chunk_id |-> contexts[idx].chunk_id,
         excerpt |-> excerpt(contexts[idx].text)]]

GenInit ==
    /\ gen_pc = "call"
    /\ gen_contexts \in GenContextLists
    /\ gen_reply \in ChatReplies
    /\ gen_result = Nil
    /\ gen_outcome = None

\* generator.py:40-100  generate_answer: the chat completion is requested
\* (67-72) and may raise; the citations are built from the contexts and
\* returned with the message content
generate_answer ==
    /\ gen_pc = "call"
    /\ gen_pc' = "done"
    /\ IF gen_reply.raised
       THEN /\ gen_outcome' = "ExternalError"
            /\ UNCHANGED gen_result
       ELSE /\ gen_outcome' = "ok"
            /\ gen_result' = Some([answer |-> gen_reply.content,
                                   citations |-> citations_of(gen_contexts)])
    /\ UNCHANGED << gen_contexts, gen_reply >>

\* no generate_answer() call in progress or to come
GenQuiet ==
    /\ gen_pc = "done"
    /\ gen_contexts = <<>>
    /\ gen_reply = [raised |-> TRUE, content |-> ""]
    /\ gen_result = Nil
    /\ gen_outcome = None

\* ---------------------------------------------------------------------------
\* Ingestion and the persisted index (pipeline.py ingest, vector_store.py):
\* one pipeline ingests while another pipeline over the same storage
\* directory answers.
\* ---------------------------------------------------------------------------

\* chunking.py:47-77  the loop over the sentences, as one function
RECURSIVE chunk_loop(_, _, _, _, _, _)
chunk_loop(st, document, sents, i, size, keep) ==
    IF i > Len(sents) THEN st
    ELSE LET sentence == sents[i]
             sentence_length == Len(sentence)
             kept == shrink(st.current_chunk, st.current_length, keep)
             next ==
                 IF window_full(st.current_length, sentence_length, size,
                                st.current_chunk)
                 THEN [chunks |-> Append(st.chunks,
                           DocumentChunk(document, st.chunk_index,
                                         st.current_chunk, st.text_cursor,
                                         st.current_length)),
                       chunk_index |-> st.chunk_index + 1,
                       current_chunk |-> Append(kept, sentence),
                       current_length |-> sum_len(kept) + sentence_length,
                       text_cursor |-> st.text_cursor + sentence_length]
                 ELSE [chunks |-> st.chunks,
                       chunk_index |-> st.chunk_index,
                       current_chunk |-> Append(st.current_chunk, sentence),
                       current_length |-> st.current_length + sentence_length,
                       text_cursor |-> st.text_cursor + sentence_length]
         IN  chunk_loop(next, document, sents, i + 1, size, keep)

\* chunking.py:28-98  chunk_document
chunk_document(document, size, keep) ==
    LET sents == split_sentences(document.text)
        st == chunk_loop([chunks |-> <<>>, chunk_index |-> 0,
                          current_chunk |-> <<>>, current_length |-> 0,
                          text_cursor |-> 0],
                         document, sents, 1, size, keep)
    IN  IF sents = <<>> THEN <<>>
        ELSE IF st.current_chunk # <<>>
        THEN Append(st.chunks,
                    DocumentChunk(document, st.chunk_index, st.current_chunk,
                                  st.text_cursor, st.current_length))
        ELSE st.chunks

\* chunking.py:101-117  chunk_corpus
RECURSIVE chunk_corpus(_, _, _)
chunk_corpus(docs, size, keep) ==
    IF docs = <<>> THEN <<>>
    ELSE chunk_document(Head(docs), size, keep)
         \o chunk_corpus(Tail(docs), size, keep)

MaxIngests == 2

MaxAsks == 1

\* settings.chunk_size (config.py:90), scaled to the texts below
IngestChunkSize == 2

VARIABLES
    initial_index,      \* what the storage directory held at the start
    disk_faiss,         \* index.faiss in the index folder: Nil, or chunk ids
    disk_pkl,           \* index.pkl in the index folder: Nil, or chunk ids
    disk_metadata,      \* the metadata file: Nil, or the lines written
    disk_document_index,\* document_index.jsonl: Nil, or the doc ids
    ig_pc,              \* position of the ingesting pipeline in ingest()
    ig_documents,       \* what load_documents returned
    ig_chunks,          \* what chunk_corpus returned
    ig_store,           \* the ingesting pipeline's _vector_store
    ig_outcome,         \* None, "ok" or the exception ingest() raised
    ig_build_called,    \* build_index was called in this ingest()
    ig_disk_at_start,   \* index and metadata files when ingest() was called
    n_ingests,          \* ingest() calls made
    n_ingest_done,      \* ingest() calls that returned normally
    ask_pc,             \* position of the answering pipeline in answer()
    ask_store,          \* the answering pipeline's _vector_store
    ask_outcome,        \* None, "Answer" or the exception answer() raised
    ask_done_before,    \* n_ingest_done when answer() returned
    n_asks              \* answer() calls made

ingest_vars == << initial_index, disk_faiss, disk_pkl, disk_metadata,
                  disk_document_index, ig_pc, ig_documents, ig_chunks,
                  ig_store, ig_outcome, ig_build_called, ig_disk_at_start,
                  n_ingests, n_ingest_done, ask_pc, ask_store, ask_outcome,
                  ask_done_before, n_asks >>

\* an empty file and a file of two sentences
IngestTexts == { <<>>, << "a", "!", "a", "!" >> }

\* data_ingestion.py:65-116  what load_documents may return: no document,
\* one file of either text, or two empty files, one doc_id each
IngestCorpora ==
    {<<>>}
    \cup { << RawDocument(DocIds[1], t) >> : t \in IngestTexts }
    \cup { << RawDocument(DocIds[1], <<>>), RawDocument(DocIds[2], <<>>) >> }

\* the chunk ids of an index built by an earlier run
OldIndex == << << "o", "l", "d" >> >>

chunk_ids(cs) == [i \in DOMAIN cs |-> cs[i].chunk_id]

\* the index and metadata files
disk_files == [faiss |-> disk_faiss, pkl |-> disk_pkl,
               metadata |-> disk_metadata]

\* vector_store.py:38  self.index_path.exists(): save_local makes the folder
\* and writes index.faiss, then index.pkl, into it
index_path_exists == disk_faiss # Nil \/ disk_pkl # Nil

\* vector_store.py:38  self.metadata_path.exists()
metadata_path_exists == disk_metadata # Nil

ingest_in_progress == ig_pc \notin {"idle", "done"}

IngestInit ==
    /\ initial_index \in {Nil, Some(OldIndex)}
    /\ disk_faiss = initial_index
    /\ disk_pkl = initial_index
    /\ disk_metadata = initial_index
    /\ disk_document_index = Nil
    /\ ig_pc = "idle"
    /\ ig_documents = <<>>
    /\ ig_chunks = <<>>
    /\ ig_store = Nil
    /\ ig_outcome = None
    /\ ig_build_called = FALSE
    /\ ig_disk_at_start = disk_files
    /\ n_ingests = 0
    /\ n_ingest_done = 0
    /\ ask_pc = "idle"
    /\ ask_store = Nil
    /\ ask_outcome = None
    /\ ask_done_before = 0
    /\ n_asks = 0

\* pipeline.py:48-58  ingest(): the documents are loaded; none is a
\* RuntimeError, otherwise document_index.jsonl is written
ingest_start(docs) ==
    /\ ig_pc = "idle"
    /\ n_ingests < MaxIngests
    /\ n_ingests' = n_ingests + 1
    /\ ig_documents' = docs
    /\ ig_chunks' = <<>>
    /\ ig_build_called' = FALSE
    /\ ig_disk_at_start' = disk_files
    /\ IF docs = <<>>
       THEN /\ ig_outcome' = "RuntimeError"
            /\ ig_pc' = "done"
            /\ UNCHANGED disk_document_index
       ELSE /\ ig_outcome' = None
            /\ ig_pc' = "chunk"
            /\ disk_document_index' =
                   Some([i \in DOMAIN docs |-> docs[i].doc_id])
    /\ UNCHANGED << initial_index, disk_faiss, disk_pkl, disk_metadata,
                    ig_store, n_ingest_done, ask_pc, ask_store, ask_outcome,
                    ask_done_before, n_asks >>

\* pipeline.py:60-70: the corpus is chunked; no chunk is a RuntimeError,
\* otherwise build_index(chunks) is called
ingest_chunk ==
    /\ ig_pc = "chunk"
    /\ LET produced == chunk_corpus(ig_documents, IngestChunkSize, 0)
       IN  /\ ig_chunks' = produced
           /\ IF produced = <<>>
              THEN /\ ig_outcome' = "RuntimeError"
                   /\ ig_pc' = "done"
                   /\ UNCHANGED ig_build_called
              ELSE /\ ig_build_called' = TRUE
                   /\ ig_pc' = "embed"
                   /\ UNCHANGED ig_outcome
    /\ UNCHANGED << initial_index, disk_faiss, disk_pkl, disk_metadata,
                    disk_document_index, ig_documents, ig_store,
                    ig_disk_at_start, n_ingests, n_ingest_done, ask_pc,
                    ask_store, ask_outcome, ask_done_before, n_asks >>

\* build_index raises at its current step
build_index_raises ==
    /\ ig_outcome' = "ExternalError"
    /\ ig_pc' = "done"

\* vector_store.py:53-72  build_index: the Documents are made and
\* FAISS.from_documents embeds them and builds the index, or raises
build_embed ==
    /\ ig_pc = "embed"
    /\ \/ ig_pc' = "save_faiss" /\ UNCHANGED ig_outcome
       \/ build_index_raises
    /\ UNCHANGED << initial_index, disk_faiss, disk_pkl, disk_metadata,
                    disk_document_index, ig_documents, ig_chunks, ig_store,
                    ig_build_called, ig_disk_at_start, n_ingests,
                    n_ingest_done, ask_pc, ask_store, ask_outcome,
                    ask_done_before, n_asks >>

\* vector_store.py:74-75  index.save_local: the folder is made and the
\* vectors are written to index.faiss, or the write raises
build_save_faiss ==
    /\ ig_pc = "save_faiss"
    /\ \/ /\ disk_faiss' = Some(chunk_ids(ig_chunks))
          /\ ig_pc' = "save_pkl"
          /\ UNCHANGED ig_outcome
       \/ /\ build_index_raises
          /\ UNCHANGED disk_faiss
    /\ UNCHANGED << initial_index, disk_pkl, disk_metadata,
                    disk_document_index, ig_documents, ig_chunks, ig_store,
                    ig_build_called, ig_disk_at_start, n_ingests,
                    n_ingest_done, ask_pc, ask_store, ask_outcome,
                    ask_done_before, n_asks >>

\* vector_store.py:75  index.save_local: the docstore is written to
\* index.pkl, or the write raises
build_save_pkl ==
    /\ ig_pc = "save_pkl"
    /\ \/ /\ disk_pkl' = Some(chunk_ids(ig_chunks))
          /\ ig_pc' = "open_metadata"
          /\ UNCHANGED ig_outcome
       \/ /\ build_index_raises
          /\ UNCHANGED disk_pkl
    /\ UNCHANGED << initial_index, disk_faiss, disk_metadata,
                    disk_document_index, ig_documents, ig_chunks, ig_store,
                    ig_build_called, ig_disk_at_start, n_ingests,
                    n_ingest_done, ask_pc, ask_store, ask_outcome,
                    ask_done_before, n_asks >>

\* vector_store.py:77  self.metadata_path.open("w"): the file is made, or
\* emptied, or the open raises
build_open_metadata ==
    /\ ig_pc = "open_metadata"
    /\ \/ /\ disk_metadata' = Some(<<>>)
          /\ ig_pc' = "write_metadata"
          /\ UNCHANGED ig_outcome
       \/ /\ build_index_raises
          /\ UNCHANGED disk_metadata
    /\ UNCHANGED << initial_index, disk_faiss, disk_pkl,
                    disk_document_index, ig_documents, ig_chunks, ig_store,
                    ig_build_called, ig_disk_at_start, n_ingests,
                    n_ingest_done, ask_pc, ask_store, ask_outcome,
                    ask_done_before, n_asks >>

\* vector_store.py:78-79: one line per chunk is written, or a write raises
\* and the lines before it stay
build_write_metadata ==
    /\ ig_pc = "write_metadata"
    /\ \/ /\ disk_metadata' = Some(chunk_ids(ig_chunks))
          /\ ig_pc' = "assign"
          /\ UNCHANGED ig_outcome
       \/ /\ \E n \in 0 .. Len(ig_chunks) - 1 :
                disk_metadata' = Some(SubSeq(chunk_ids(ig_chunks), 1, n))
          /\ build_index_raises
    /\ UNCHANGED << initial_index, disk_faiss, disk_pkl,
                    disk_document_index, ig_documents, ig_chunks, ig_store,
                    ig_build_called, ig_disk_at_start, n_ingests,
                    n_ingest_done, ask_pc, ask_store, ask_outcome,
                    ask_done_before, n_asks >>

\* what a loaded or built FAISS object holds
FaissStore(vectors, docs) == [vectors |-> vectors, docs |-> docs]

\* variant: an index already in memory is kept
build_assign_once ==
    /\ ig_pc = "assign"
    /\ ig_store' = IF ig_store # Nil THEN ig_store
                   ELSE Some(FaissStore(chunk_ids(ig_chunks),
                                        chunk_ids(ig_chunks)))
    /\ ig_outcome' = "ok"
    /\ n_ingest_done' = n_ingest_done + 1
    /\ ig_pc' = "done"
    /\ UNCHANGED << initial_index, disk_faiss, disk_pkl, disk_metadata,
                    disk_document_index, ig_documents, ig_chunks,
                    ig_build_called, ig_disk_at_start, n_ingests, ask_pc,
                    ask_store, ask_outcome, ask_done_before, n_asks >>

\* vector_store.py:81-82, pipeline.py:71: the new index becomes the
\* pipeline's _vector_store and ingest() returns
build_assign ==
    /\ ig_pc = "assign"
    /\ ig_store' = Some(FaissStore(chunk_ids(ig_chunks),
                                   chunk_ids(ig_chunks)))
    /\ ig_outcome' = "ok"
    /\ n_ingest_done' = n_ingest_done + 1
    /\ ig_pc' = "done"
    /\ UNCHANGED << initial_index, disk_faiss, disk_pkl, disk_metadata,
                    disk_document_index, ig_documents, ig_chunks,
                    ig_build_called, ig_disk_at_start, n_ingests, ask_pc,
                    ask_store, ask_outcome, ask_done_before, n_asks >>

\* The caller of ingest() has its return or its exception.
ingest_return ==
    /\ ig_pc = "done"
    /\ ig_pc' = "idle"
    /\ ig_documents' = <<>>
    /\ ig_chunks' = <<>>
    /\ ig_outcome' = None
    /\ ig_build_called' = FALSE
    /\ ig_disk_at_start' = disk_files
    /\ UNCHANGED << initial_index, disk_faiss, disk_pkl, disk_metadata,
                    disk_document_index, ig_store, n_ingests, n_ingest_done,
                    ask_pc, ask_store, ask_outcome, ask_done_before,
                    n_asks >>

\* pipeline.py:73-84  answer() is called on the other pipeline with a valid
\* query and reaches the similarity search
ask_start ==
    /\ ask_pc = "idle"
    /\ n_asks < MaxAsks
    /\ n_asks' = n_asks + 1
    /\ ask_outcome' = None
    /\ ask_done_before' = 0
    /\ ask_pc' = "ensure"
    /\ UNCHANGED << initial_index, disk_faiss, disk_pkl, disk_metadata,
                    disk_document_index, ig_pc, ig_documents, ig_chunks,
                    ig_store, ig_outcome, ig_build_called, ig_disk_at_start,
                    n_ingests, n_ingest_done, ask_store >>

\* vector_store.py:33-38,45-48  _ensure_vector_store: a store already in
\* memory is used; otherwise both paths must exist, or RuntimeError
ask_ensure ==
    /\ ask_pc = "ensure"
    /\ IF ask_store # Nil
       THEN ask_pc' = "stages" /\ UNCHANGED << ask_outcome, ask_done_before >>
       ELSE IF index_path_exists /\ metadata_path_exists
       THEN ask_pc' = "load" /\ UNCHANGED << ask_outcome, ask_done_before >>
       ELSE /\ ask_outcome' = "RuntimeError"
            /\ ask_done_before' = n_ingest_done
            /\ ask_pc' = "done"
    /\ UNCHANGED << initial_index, disk_faiss, disk_pkl, disk_metadata,
                    disk_document_index, ig_pc, ig_documents, ig_chunks,
                    ig_store, ig_outcome, ig_build_called, ig_disk_at_start,
                    n_ingests, n_ingest_done, ask_store, n_asks >>

\* vector_store.py:39-44  FAISS.load_local reads index.faiss and index.pkl
\* and the result becomes _vector_store; a missing file raises
ask_load ==
    /\ ask_pc = "load"
    /\ IF disk_faiss # Nil /\ disk_pkl # Nil
       THEN /\ ask_store' = Some(FaissStore(Val(disk_faiss), Val(disk_pkl)))
            /\ ask_pc' = "stages"
            /\ UNCHANGED << ask_outcome, ask_done_before >>
       ELSE /\ ask_outcome' = "ExternalError"
            /\ ask_done_before' = n_ingest_done
            /\ ask_pc' = "done"
            /\ UNCHANGED ask_store
    /\ UNCHANGED << initial_index, disk_faiss, disk_pkl, disk_metadata,
                    disk_document_index, ig_pc, ig_documents, ig_chunks,
                    ig_store, ig_outcome, ig_build_called, ig_disk_at_start,
                    n_ingests, n_ingest_done, n_asks >>

\* pipeline.py:84-133: the search, the rerank, the generation and the
\* record; answer() returns the Answer or a stage raises
ask_stages ==
    /\ ask_pc = "stages"
    /\ ask_outcome' \in {"Answer", "ExternalError"}
    /\ ask_done_before' = n_ingest_done
    /\ ask_pc' = "done"
    /\ UNCHANGED << initial_index, disk_faiss, disk_pkl, disk_metadata,
                    disk_document_index, ig_pc, ig_documents, ig_chunks,
                    ig_store, ig_outcome, ig_build_called, ig_disk_at_start,
                    n_ingests, n_ingest_done, ask_store, n_asks >>

\* The caller of answer() has its Answer or its exception.
ask_return ==
    /\ ask_pc = "done"
    /\ ask_pc' = "idle"
    /\ ask_outcome' = None
    /\ ask_done_before' = 0
    /\ UNCHANGED << initial_index, disk_faiss, disk_pkl, disk_metadata,
                    disk_document_index, ig_pc, ig_documents, ig_chunks,
                    ig_store, ig_outcome, ig_build_called, ig_disk_at_start,
                    n_ingests, n_ingest_done, ask_store, n_asks >>

\* The storage of the other specifications: empty, no call made
IngestQuiet ==
    /\ IngestInit
    /\ initial_index = Nil

\* ---------------------------------------------------------------------------
\* answer() called from several threads on one pipeline (pipeline.py:73-133,
\* retriever.py, vector_store.py:33-49, metrics.py:55-81). The index is on
\* disk, the reranker is the pass-through one, top_k is 1 and rerank_top_k
\* is 2: two hits are retrieved and the first is kept.
\* ---------------------------------------------------------------------------

MaxAnswerCalls == 2

VARIABLES
    vs_store,       \* the adapter's _vector_store: Nil, or the FAISS object
    vs_loads,       \* FAISS.load_local calls that returned
    vs_replaced,    \* a loaded _vector_store was assigned again
    doc_meta,       \* the metadata dict of each Document of each FAISS object
    db_rows,        \* the rows of the metrics table
    db_lock,        \* the holder of MetricsCollector._lock, or None
    insert_failures,\* inserts that raised
    apc,            \* each thread's position in answer()
    a_call,         \* each thread's call: its thread and its number
    a_query,        \* each thread's query
    a_obj,          \* the FAISS object _ensure_vector_store returned
    a_results,      \* retrieval_results, then reranked_results: chunk names
    a_outcome,      \* None, "Answer" or the exception raised
    last_answer,    \* the Answer each thread's caller was last given
    completed,      \* the calls that returned an Answer
    failed,         \* the calls that raised
    n_answer_calls  \* answer() calls made

answers_vars == << vs_store, vs_loads, vs_replaced, doc_meta, db_rows,
                   db_lock, insert_failures, apc, a_call, a_query, a_obj,
                   a_results, a_outcome, last_answer, completed, failed,
                   n_answer_calls >>

AnswerQueries == {"q1", "q2"}

IndexChunkNames == {"c1", "c2"}

\* FAISS.load_local builds a new object on every call
FaissObjects == 1 .. Cardinality(Threads)

\* the hits of a query, best first: each query is nearest to its own chunk
hits(q) == IF q = "q1" THEN << "c1", "c2" >> ELSE << "c2", "c1" >>

\* the distance FAISS gives for a hit
distance(q, c) == << q, c >>

\* vector_store.py:56-63: the metadata a Document is built with, less the
\* keys that never change; the pipeline's three keys are absent
StoredMetadata == [score |-> Nil, retrieval_rank |-> Nil, rerank_rank |-> Nil]

AnswersInit ==
    /\ vs_store = Nil
    /\ vs_loads = 0
    /\ vs_replaced = FALSE
    /\ doc_meta = [o \in FaissObjects |->
                     [c \in IndexChunkNames |-> StoredMetadata]]
    /\ db_rows = <<>>
    /\ db_lock = None
    /\ insert_failures = 0
    /\ apc = [t \in Threads |-> "idle"]
    /\ a_call = [t \in Threads |-> Nil]
    /\ a_query = [t \in Threads |-> None]
    /\ a_obj = [t \in Threads |-> Nil]
    /\ a_results = [t \in Threads |-> <<>>]
    /\ a_outcome = [t \in Threads |-> None]
    /\ last_answer = [t \in Threads |-> Nil]
    /\ completed = {}
    /\ failed = {}
    /\ n_answer_calls = 0

\* pipeline.py:73-84  answer(query) is called by thread t with a valid query
a_start(t, q) ==
    /\ apc[t] = "idle"
    /\ n_answer_calls < MaxAnswerCalls
    /\ n_answer_calls' = n_answer_calls + 1
    /\ a_call' = only(a_call, t, Some(<< t, n_answer_calls + 1 >>))
    /\ a_query' = only(a_query, t, q)
    /\ a_obj' = only(a_obj, t, Nil)
    /\ a_results' = only(a_results, t, <<>>)
    /\ a_outcome' = only(a_outcome, t, None)
    /\ apc' = only(apc, t, "ensure")
    /\ UNCHANGED << vs_store, vs_loads, vs_replaced, doc_meta, db_rows,
                    db_lock, insert_failures, last_answer, completed,
                    failed >>

\* vector_store.py:35-38  _ensure_vector_store: a store in memory is
\* returned; otherwise the files are there and the index is to be loaded
a_ensure(t) ==
    /\ apc[t] = "ensure"
    /\ IF vs_store # Nil
       THEN /\ a_obj' = only(a_obj, t, vs_store)
            /\ apc' = only(apc, t, "search")
       ELSE /\ apc' = only(apc, t, "load")
            /\ UNCHANGED a_obj
    /\ UNCHANGED << vs_store, vs_loads, vs_replaced, doc_meta, db_rows,
                    db_lock, insert_failures, a_call, a_query, a_results,
                    a_outcome, last_answer, completed, failed,
                    n_answer_calls >>

\* vector_store.py:40-49  FAISS.load_local returns a new object, which is
\* assigned to _vector_store and returned
a_load(t) ==
    /\ apc[t] = "load"
    /\ vs_loads' = vs_loads + 1
    /\ vs_store' = Some(vs_loads + 1)
    /\ vs_replaced' = (vs_replaced \/ vs_store # Nil)
    /\ a_obj' = only(a_obj, t, Some(vs_loads + 1))
    /\ apc' = only(apc, t, "search")
    /\ UNCHANGED << doc_meta, db_rows, db_lock, insert_failures, a_call,
                    a_query, a_results, a_outcome, last_answer, completed,
                    failed, n_answer_calls >>

\* retriever.py:25-47, vector_store.py:88-92: the search returns the
\* Documents the FAISS object holds; for each, metadata = doc.metadata (the
\* stored dict, which is not empty) and metadata["score"] = float(score)
a_retrieve(t) ==
    /\ apc[t] = "search"
    /\ LET found == hits(a_query[t])
           o == Val(a_obj[t])
       IN  /\ a_results' = only(a_results, t, found)
           /\ doc_meta' = [doc_meta EXCEPT ![o] =
                  [c \in IndexChunkNames |->
                      IF c \in Range(found)
                      THEN [doc_meta[o][c] EXCEPT
                              !.score = Some(distance(a_query[t], c))]
                      ELSE doc_meta[o][c]]]
    /\ apc' = only(apc, t, "rank")
    /\ UNCHANGED << vs_store, vs_loads, vs_replaced, db_rows, db_lock,
                    insert_failures, a_call, a_query, a_obj, a_outcome,
                    last_answer, completed, failed, n_answer_calls >>

\* the place of c in a list of chunk names
place(found, c) == CHOOSE i \in DOMAIN found : found[i] = c

\* pipeline.py:85-86  item.chunk.metadata["retrieval_rank"] = idx
a_retrieval_ranks(t) ==
    /\ apc[t] = "rank"
    /\ LET found == a_results[t]
           o == Val(a_obj[t])
       IN  doc_meta' = [doc_meta EXCEPT ![o] =
               [c \in IndexChunkNames |->
                   IF c \in Range(found)
                   THEN [doc_meta[o][c] EXCEPT
                           !.retrieval_rank = Some(place(found, c))]
                   ELSE doc_meta[o][c]]]
    /\ apc' = only(apc, t, "rerank")
    /\ UNCHANGED << vs_store, vs_loads, vs_replaced, db_rows, db_lock,
                    insert_failures, a_call, a_query, a_obj, a_results,
                    a_outcome, last_answer, completed, failed,
                    n_answer_calls >>

\* pipeline.py:87-91: the pass-through reranker keeps the first top_k = 1
\* results; item.chunk.metadata["rerank_rank"] = idx
a_rerank(t) ==
    /\ apc[t] = "rerank"
    /\ LET kept == noop_rerank(a_results[t], 1)
           o == Val(a_obj[t])
       IN  /\ a_results' = only(a_results, t, kept)
           /\ doc_meta' = [doc_meta EXCEPT ![o] =
                  [c \in IndexChunkNames |->
                      IF c \in Range(kept)
                      THEN [doc_meta[o][c] EXCEPT
                              !.rerank_rank = Some(place(kept, c))]
                      ELSE doc_meta[o][c]]]
    /\ apc' = only(apc, t, "generate")
    /\ UNCHANGED << vs_store, vs_loads, vs_replaced, db_rows, db_lock,
                    insert_failures, a_call, a_query, a_obj, a_outcome,
                    last_answer, completed, failed, n_answer_calls >>

\* pipeline.py:102-110  context_payload: "metadata" is item.chunk.metadata,
\* the dict itself; `seen` is what the dict held when the Answer was built
context_of(o, c) == [chunk_id |-> c, object |-> o, seen |-> doc_meta[o][c]]

\* pipeline.py:95-118: the chat completion is requested and the Answer is
\* built, or the generator raises and so does answer()
a_generate(t) ==
    /\ apc[t] = "generate"
    /\ \/ /\ last_answer' = only(last_answer, t,
                Some([query |-> a_query[t],
                      contexts |-> [i \in DOMAIN a_results[t] |->
                          context_of(Val(a_obj[t]), a_results[t][i])]]))
          /\ apc' = only(apc, t, "record")
          /\ UNCHANGED << a_outcome, failed >>
       \/ /\ a_outcome' = only(a_outcome, t, "ExternalError")
          /\ failed' = failed \cup {Val(a_call[t])}
          /\ apc' = only(apc, t, "done")
          /\ UNCHANGED last_answer
    /\ UNCHANGED << vs_store, vs_loads, vs_replaced, doc_meta, db_rows,
                    db_lock, insert_failures, a_call, a_query, a_obj,
                    a_results, completed, n_answer_calls >>

\* variant: record() writes without taking the lock
a_record_unlocked(t) ==
    /\ apc[t] = "record"
    /\ apc' = only(apc, t, "insert")
    /\ UNCHANGED << vs_store, vs_loads, vs_replaced, doc_meta, db_rows,
                    db_lock, insert_failures, a_call, a_query, a_obj,
                    a_results, a_outcome, last_answer, completed, failed,
                    n_answer_calls >>

\* pipeline.py:120-126, metrics.py:66-68  record(): with self._lock
a_record(t) ==
    /\ apc[t] = "record"
    /\ db_lock = None
    /\ db_lock' = t
    /\ apc' = only(apc, t, "insert")
    /\ UNCHANGED << vs_store, vs_loads, vs_replaced, doc_meta, db_rows,
                    insert_failures, a_call, a_query, a_obj, a_results,
                    a_outcome, last_answer, completed, failed,
                    n_answer_calls >>

\* metrics.py:69-81: INSERT and commit on the thread's own connection add
\* one row with the next id, or raise, which is logged; the lock is released
a_insert(t) ==
    /\ apc[t] = "insert"
    /\ \/ /\ db_rows' = Append(db_rows, [id |-> Len(db_rows) + 1,
                                        query |-> a_query[t],
                                        call |-> Val(a_call[t])])
          /\ UNCHANGED insert_failures
       \/ /\ insert_failures' = insert_failures + 1
          /\ UNCHANGED db_rows
    /\ db_lock' = IF db_lock = t THEN None ELSE db_lock
    /\ apc' = only(apc, t, "return")
    /\ UNCHANGED << vs_store, vs_loads, vs_replaced, doc_meta, a_call,
                    a_query, a_obj, a_results, a_outcome, last_answer,
                    completed, failed, n_answer_calls >>

\* pipeline.py:133  return answer
a_return(t) ==
    /\ apc[t] = "return"
    /\ a_outcome' = only(a_outcome, t, "Answer")
    /\ completed' = completed \cup {Val(a_call[t])}
    /\ apc' = only(apc, t, "done")
    /\ UNCHANGED << vs_store, vs_loads, vs_replaced, doc_meta, db_rows,
                    db_lock, insert_failures, a_call, a_query, a_obj,
                    a_results, last_answer, failed, n_answer_calls >>

\* The caller has its Answer or its exception; the thread may call again.
a_finish(t) ==
    /\ apc[t] = "done"
    /\ apc' = only(apc, t, "idle")
    /\ a_call' = only(a_call, t, Nil)
    /\ a_query' = only(a_query, t, None)
    /\ a_obj' = only(a_obj, t, Nil)
    /\ a_results' = only(a_results, t, <<>>)
    /\ a_outcome' = only(a_outcome, t, None)
    /\ UNCHANGED << vs_store, vs_loads, vs_replaced, doc_meta, db_rows,
                    db_lock, insert_failures, last_answer, completed, failed,
                    n_answer_calls >>

\* The pipeline of the other specifications: no thread calls answer()
AnswersQuiet == AnswersInit

\* ---------------------------------------------------------------------------
\* The timers of one answer() call (pipeline.py:78-126) over a monotonic
\* clock, time.perf_counter(): each stage takes some time, and the clock is
\* read where the code reads it.
\* ---------------------------------------------------------------------------

MaxStageTime == 2

VARIABLES
    clock,            \* time.perf_counter(), in seconds
    tm_pc,            \* position in answer()
    start_total,      \* answer(): start_total
    start_retrieval,  \* answer(): start_retrieval
    start_generation, \* answer(): start_generation
    retrieval_ms,     \* answer(): retrieval_ms
    generation_ms,    \* answer(): generation_ms
    total_ms,         \* answer(): total_ms
    stage_began,      \* history: the clock when each stage was entered
    stage_ended,      \* history: the clock when each stage returned
    tm_outcome,       \* None, "Answer" or the exception raised
    tm_row            \* the durations given to metrics.record

timing_vars == << clock, tm_pc, start_total, start_retrieval,
                  start_generation, retrieval_ms, generation_ms, total_ms,
                  stage_began, stage_ended, tm_outcome, tm_row >>

Stages == {"retrieve", "rerank", "generate"}

\* what a statement or a stage may take
Durations == 0 .. MaxStageTime

\* pipeline.py:92,98,100  (time.perf_counter() - start) * 1000
elapsed_ms(now, start) == (now - start) * 1000

NoRow == [latency_ms |-> 0, retrieval_ms |-> 0, generation_ms |-> 0]

TimingInit ==
    /\ clock \in Durations
    /\ tm_pc = "idle"
    /\ start_total = 0
    /\ start_retrieval = 0
    /\ start_generation = 0
    /\ retrieval_ms = 0
    /\ generation_ms = 0
    /\ total_ms = 0
    /\ stage_began = [s \in Stages |-> 0]
    /\ stage_ended = [s \in Stages |-> 0]
    /\ tm_outcome = None
    /\ tm_row = NoRow

\* pipeline.py:75-78: the query is valid; start_total = time.perf_counter()
tm_answer_start ==
    /\ tm_pc = "idle"
    /\ start_total' = clock
    /\ tm_pc' = "setup"
    /\ UNCHANGED << clock, start_retrieval, start_generation, retrieval_ms,
                    generation_ms, total_ms, stage_began, stage_ended,
                    tm_outcome, tm_row >>

\* pipeline.py:80-83: the depth is computed and the Retriever is made, which
\* takes d; start_retrieval = time.perf_counter()
tm_setup(d) ==
    /\ tm_pc = "setup"
    /\ clock' = clock + d
    /\ start_retrieval' = clock'
    /\ tm_pc' = "retrieve"
    /\ UNCHANGED << start_total, start_generation, retrieval_ms,
                    generation_ms, total_ms, stage_began, stage_ended,
                    tm_outcome, tm_row >>

\* pipeline.py:84  retriever.retrieve(query) takes d and returns, or raises
tm_retrieve(d) ==
    /\ tm_pc = "retrieve"
    /\ clock' = clock + d
    /\ stage_began' = [stage_began EXCEPT !["retrieve"] = clock]
    /\ stage_ended' = [stage_ended EXCEPT !["retrieve"] = clock']
    /\ \/ tm_pc' = "rerank" /\ UNCHANGED tm_outcome
       \/ tm_pc' = "done" /\ tm_outcome' = "ExternalError"
    /\ UNCHANGED << start_total, start_retrieval, start_generation,
                    retrieval_ms, generation_ms, total_ms, tm_row >>

\* pipeline.py:85-92: the ranks are written and reranker.rerank takes d and
\* returns, or raises; retrieval_ms is the time since start_retrieval
tm_rerank(d) ==
    /\ tm_pc = "rerank"
    /\ clock' = clock + d
    /\ stage_began' = [stage_began EXCEPT !["rerank"] = clock]
    /\ stage_ended' = [stage_ended EXCEPT !["rerank"] = clock']
    /\ \/ /\ retrieval_ms' = elapsed_ms(clock', start_retrieval)
          /\ tm_pc' = "generate"
          /\ UNCHANGED tm_outcome
       \/ /\ tm_pc' = "done"
          /\ tm_outcome' = "ExternalError"
          /\ UNCHANGED retrieval_ms
    /\ UNCHANGED << start_total, start_retrieval, start_generation,
                    generation_ms, total_ms, tm_row >>

\* pipeline.py:94-98: start_generation is read, generate_answer takes d and
\* returns, or raises; generation_ms is the time since start_generation
tm_generate(d) ==
    /\ tm_pc = "generate"
    /\ start_generation' = clock
    /\ clock' = clock + d
    /\ stage_began' = [stage_began EXCEPT !["generate"] = clock]
    /\ stage_ended' = [stage_ended EXCEPT !["generate"] = clock']
    /\ \/ /\ generation_ms' = elapsed_ms(clock', start_generation')
          /\ tm_pc' = "total"
          /\ UNCHANGED tm_outcome
       \/ /\ tm_pc' = "done"
          /\ tm_outcome' = "ExternalError"
          /\ UNCHANGED generation_ms
    /\ UNCHANGED << start_total, start_retrieval, retrieval_ms, total_ms,
                    tm_row >>

\* pipeline.py:100: the clock is read again, d after the read of line 98;
\* total_ms is the time since start_total
tm_total(d) ==
    /\ tm_pc = "total"
    /\ clock' = clock + d
    /\ total_ms' = elapsed_ms(clock', start_total)
    /\ tm_pc' = "record"
    /\ UNCHANGED << start_total, start_retrieval, start_generation,
                    retrieval_ms, generation_ms, stage_began, stage_ended,
                    tm_outcome, tm_row >>

\* pipeline.py:102-133: the Answer is built with latency_ms = total_ms, the
\* three durations are given to metrics.record and the Answer is returned
tm_record ==
    /\ tm_pc = "record"
    /\ tm_row' = [latency_ms |-> total_ms, retrieval_ms |-> retrieval_ms,
                  generation_ms |-> generation_ms]
    /\ tm_outcome' = "Answer"
    /\ tm_pc' = "done"
    /\ UNCHANGED << clock, start_total, start_retrieval, start_generation,
                    retrieval_ms, generation_ms, total_ms, stage_began,
                    stage_ended >>

\* The pipeline of the other specifications: no call is timed
TimingQuiet == TimingInit /\ clock = 0

\* ---------------------------------------------------------------------------
\* build_index with its embedding step spelled out (vector_store.py:66-72,
\* embedding_service.py:160-171): FAISS.from_documents gives the chunk texts
\* to the adapter's embed_documents, which is embed_texts of the pipeline's
\* embedding service. The same service embeds the queries. One caller, one
\* call at a time.
\* ---------------------------------------------------------------------------

VARIABLES
    at_call,            \* history: the state when the call in flight began
    embed_step_failed   \* history: build_index raised in its embedding step

build_vars == << at_call, embed_step_failed >>

\* the files load_documents finds: none, an empty one, one of one chunk, one
\* of two chunks
BuildCorpora ==
    { <<>>,
      << RawDocument(DocIds[1], <<>>) >>,
      << RawDocument(DocIds[1], << "a", "!" >>) >>,
      << RawDocument(DocIds[1], << "a", "!", "!" >>) >> }

\* the queries embedded between two ingests
BuildQueries == { << "a", "!" >>, << "!" >> }

\* vector_store.py:53-64  Document(page_content=chunk.text, ...) per chunk
page_contents(cs) == [i \in DOMAIN cs |-> cs[i].text]

\* what the claims compare with: the cache, its flag, its snapshot, the
\* index and metadata files and the index in memory
StateNow == [cache |-> cache, cache_dirty |-> cache_dirty,
             cache_file |-> cache_file, files |-> disk_files,
             store |-> ig_store]

BuildInit ==
    /\ at_call = Nil
    /\ embed_step_failed = FALSE

\* embedding_service.py:151-153  embed_query(q) is called while no ingest
\* runs
query_start(q) ==
    /\ ig_pc = "idle"
    /\ embed_start(<< q >>, TRUE)
    /\ at_call' = StateNow
    /\ embed_step_failed' = FALSE
    /\ UNCHANGED ingest_vars

\* the caller of embed_query has its vector or its exception
query_finish ==
    /\ ig_pc = "idle"
    /\ embed_finish
    /\ UNCHANGED << build_vars, ingest_vars >>

\* pipeline.py:48-58  ingest() is called while no embedding call runs
service_ingest_start(docs) ==
    /\ epc = "idle"
    /\ ingest_start(docs)
    /\ at_call' = StateNow
    /\ embed_step_failed' = FALSE
    /\ UNCHANGED embed_vars

\* vector_store.py:66-72, embedding_service.py:166-167: from_documents calls
\* embed_documents(texts), that is embed_texts(texts)
build_embed_start ==
    /\ ig_pc = "embed"
    /\ embed_start(page_contents(ig_chunks), FALSE)
    /\ ig_pc' = "embedding"
    /\ at_call' = StateNow
    /\ embed_step_failed' = FALSE
    /\ UNCHANGED << initial_index, disk_faiss, disk_pkl, disk_metadata,
                    disk_document_index, ig_documents, ig_chunks, ig_store,
                    ig_outcome, ig_build_called, ig_disk_at_start, n_ingests,
                    n_ingest_done, ask_pc, ask_store, ask_outcome,
                    ask_done_before, n_asks >>

\* vector_store.py:69-72: embed_texts has returned or raised; with the
\* vectors from_documents builds the index, or raises; an exception of
\* embed_texts goes through from_documents and build_index to the caller
build_embed_done ==
    /\ ig_pc = "embedding"
    /\ epc = "done"
    /\ embed_finish
    /\ IF e_outcome = "ok"
       THEN /\ \/ ig_pc' = "save_faiss" /\ UNCHANGED ig_outcome
               \/ build_index_raises
            /\ embed_step_failed' = FALSE
       ELSE /\ ig_outcome' = e_outcome
            /\ ig_pc' = "done"
            /\ embed_step_failed' = TRUE
    /\ UNCHANGED << at_call, initial_index, disk_faiss, disk_pkl,
                    disk_metadata, disk_document_index, ig_documents,
                    ig_chunks, ig_store, ig_build_called, ig_disk_at_start,
                    n_ingests, n_ingest_done, ask_pc, ask_store, ask_outcome,
                    ask_done_before, n_asks >>

\* The pipeline of the other specifications: no call of this kind is made
BuildQuiet == BuildInit

vars == << pipe_vars, embed_vars, rerank_vars, chunk_vars, ethread_vars,
    gen_vars, ingest_vars, answers_vars, timing_vars, build_vars >>

\* what each specification leaves alone
outside_pipe == << embed_vars, rerank_vars, chunk_vars, ethread_vars,
    gen_vars, ingest_vars, answers_vars, timing_vars, build_vars >>

outside_embed == << pipe_vars, rerank_vars, chunk_vars, ethread_vars,
    gen_vars, ingest_vars, answers_vars, timing_vars, build_vars >>

outside_rerank == << pipe_vars, embed_vars, chunk_vars, ethread_vars,
    gen_vars, ingest_vars, answers_vars, timing_vars, build_vars >>

outside_chunk == << pipe_vars, embed_vars, rerank_vars, ethread_vars,
    gen_vars, ingest_vars, answers_vars, timing_vars, build_vars >>

outside_threads == << pipe_vars, embed_vars, rerank_vars, chunk_vars,
    gen_vars, ingest_vars, answers_vars, timing_vars, build_vars >>

outside_generate == << pipe_vars, embed_vars, rerank_vars, chunk_vars,
    ethread_vars, ingest_vars, answers_vars, timing_vars, build_vars >>

outside_ingest == << pipe_vars, embed_vars, rerank_vars, chunk_vars,
    ethread_vars, gen_vars, answers_vars, timing_vars, build_vars >>

outside_answers == << pipe_vars, embed_vars, rerank_vars, chunk_vars,
    ethread_vars, gen_vars, ingest_vars, timing_vars, build_vars >>

outside_timing == << pipe_vars, embed_vars, rerank_vars, chunk_vars,
    ethread_vars, gen_vars, ingest_vars, answers_vars, build_vars >>

Init == PipeInit /\ EmbedInit /\ RerankQuiet /\ ChunkQuiet /\
    ThreadsQuiet /\ GenQuiet /\ IngestQuiet /\ AnswersQuiet /\
    TimingQuiet /\ BuildQuiet

Next ==
    \/ \E n \in 0 .. MaxChunks : ingest(n) /\ UNCHANGED outside_pipe
    \/ restart /\ UNCHANGED outside_pipe
    \/ \E q \in Queries, k \in TopKInputs :
          answer_start(q, k) /\ UNCHANGED outside_pipe
    \/ retrieve_stage /\ UNCHANGED outside_pipe
    \/ rerank_stage /\ UNCHANGED outside_pipe
    \/ generate_stage /\ UNCHANGED outside_pipe
    \/ record_stage /\ UNCHANGED outside_pipe
    \/ insert_stage /\ UNCHANGED outside_pipe
    \/ answer_return /\ UNCHANGED outside_pipe

\* One pipeline, its calls in sequence
Spec == Init /\ [][Next]_vars

\* The pipeline of the other specifications: configured, never called
PipeQuiet ==
    /\ PipeInit
    /\ settings = [top_k |-> MaxK, rerank_top_k |-> MaxK, api_key |-> TRUE,
                   reranker |-> "none"]

InitEmbed == PipeQuiet /\ EmbedInit /\ RerankQuiet /\ ChunkQuiet /\
    ThreadsQuiet /\ GenQuiet /\ IngestQuiet /\ AnswersQuiet /\
    TimingQuiet /\ BuildQuiet

NextEmbed ==
    \/ embed_restart /\ UNCHANGED outside_embed
    \/ \E texts \in TextLists : embed_start(texts, FALSE) /\ UNCHANGED outside_embed
    \/ \E t \in Texts : embed_start(<< t >>, TRUE) /\ UNCHANGED outside_embed
    \/ embed_lookup /\ UNCHANGED outside_embed
    \/ embed_batch /\ UNCHANGED outside_embed
    \/ embed_update /\ UNCHANGED outside_embed
    \/ embed_save /\ UNCHANGED outside_embed
    \/ embed_return /\ UNCHANGED outside_embed
    \/ embed_finish /\ UNCHANGED outside_embed

\* One EmbeddingService, its calls in sequence
SpecEmbed == InitEmbed /\ [][NextEmbed]_vars

InitRerank == PipeQuiet /\ EmbedInit /\ RerankInit /\ ChunkQuiet /\
    ThreadsQuiet /\ GenQuiet /\ IngestQuiet /\ AnswersQuiet /\
    TimingQuiet /\ BuildQuiet

NextRerank ==
    \/ noop_rerank_call /\ UNCHANGED outside_rerank
    \/ colbert_rerank_call /\ UNCHANGED outside_rerank

\* One rerank() call of either variant on each candidate list
SpecRerank == InitRerank /\ [][NextRerank]_vars

InitChunk == PipeQuiet /\ EmbedInit /\ RerankQuiet /\ ChunkInit /\
    ThreadsQuiet /\ GenQuiet /\ IngestQuiet /\ AnswersQuiet /\
    TimingQuiet /\ BuildQuiet

NextChunk ==
    \/ chunk_document_start /\ UNCHANGED outside_chunk
    \/ sentence_step /\ UNCHANGED outside_chunk
    \/ chunk_document_return /\ UNCHANGED outside_chunk
    \/ chunk_corpus_return /\ UNCHANGED outside_chunk

\* One chunk_corpus() call on each corpus
SpecChunk == InitChunk /\ [][NextChunk]_vars

InitThreads == PipeQuiet /\ EmbedInit /\ RerankQuiet /\ ChunkQuiet /\
    ThreadsInit /\ GenQuiet /\ IngestQuiet /\ AnswersQuiet /\
    TimingQuiet /\ BuildQuiet

NextThreads ==
    \/ \E t \in Threads, texts \in ThreadTextLists :
          t_embed_texts(t, texts) /\ UNCHANGED outside_threads
    \/ \E t \in Threads : t_model_property(t) /\ UNCHANGED outside_threads
    \/ \E t \in Threads : t_lookup_acquire(t) /\ UNCHANGED outside_threads
    \/ \E t \in Threads : t_lookup(t) /\ UNCHANGED outside_threads
    \/ \E t \in Threads : t_load_check(t) /\ UNCHANGED outside_threads
    \/ \E t \in Threads : t_load_acquire(t) /\ UNCHANGED outside_threads
    \/ \E t \in Threads : t_load_recheck(t) /\ UNCHANGED outside_threads
    \/ \E t \in Threads : t_load_construct(t) /\ UNCHANGED outside_threads
    \/ \E t \in Threads : t_load_configure(t) /\ UNCHANGED outside_threads
    \/ \E t \in Threads : t_encode_call(t) /\ UNCHANGED outside_threads
    \/ \E t \in Threads : t_encode_return(t) /\ UNCHANGED outside_threads
    \/ \E t \in Threads : t_update_acquire(t) /\ UNCHANGED outside_threads
    \/ \E t \in Threads : t_update(t) /\ UNCHANGED outside_threads
    \/ \E t \in Threads : t_save_check(t) /\ UNCHANGED outside_threads
    \/ \E t \in Threads : t_save_acquire(t) /\ UNCHANGED outside_threads
    \/ \E t \in Threads : t_save(t) /\ UNCHANGED outside_threads
    \/ \E t \in Threads : t_return(t) /\ UNCHANGED outside_threads
    \/ \E t \in Threads : t_finish(t) /\ UNCHANGED outside_threads

\* One EmbeddingService, its calls made from concurrent threads
SpecThreads == InitThreads /\ [][NextThreads]_vars

\* the steps of thread t that neither start a call nor wait for the model:
\* building the model (line 54) and encode (line 105) may take for ever
thread_step(t) ==
    \/ t_lookup_acquire(t) \/ t_lookup(t) \/ t_load_check(t)
    \/ t_load_acquire(t) \/ t_load_recheck(t) \/ t_load_configure(t)
    \/ t_encode_call(t) \/ t_update_acquire(t) \/ t_update(t)
    \/ t_save_check(t) \/ t_save_acquire(t) \/ t_save(t)
    \/ t_return(t) \/ t_finish(t)

\* the steps of thread t inside the model library
model_step(t) == t_load_construct(t) \/ t_encode_return(t)

\* The same service, called with short lists, under a scheduler that lets
\* every thread run that can: a thread whose next statement can be executed
\* executes it in the end. Nothing is assumed of the model library.
\* the lists of the calls below: one text, or two different texts
FairTextLists == { << x >> : x \in Texts } \cup { << "a", "b" >> }

NextFair ==
    \/ \E t \in Threads, texts \in FairTextLists :
          t_embed_texts(t, texts) /\ UNCHANGED outside_threads
    \/ \E t \in Threads : t_model_property(t) /\ UNCHANGED outside_threads
    \/ \E t \in Threads : t_lookup_acquire(t) /\ UNCHANGED outside_threads
    \/ \E t \in Threads : t_lookup(t) /\ UNCHANGED outside_threads
    \/ \E t \in Threads : t_load_check(t) /\ UNCHANGED outside_threads
    \/ \E t \in Threads : t_load_acquire(t) /\ UNCHANGED outside_threads
    \/ \E t \in Threads : t_load_recheck(t) /\ UNCHANGED outside_threads
    \/ \E t \in Threads : t_load_construct(t) /\ UNCHANGED outside_threads
    \/ \E t \in Threads : t_load_configure(t) /\ UNCHANGED outside_threads
    \/ \E t \in Threads : t_encode_call(t) /\ UNCHANGED outside_threads
    \/ \E t \in Threads : t_encode_return(t) /\ UNCHANGED outside_threads
    \/ \E t \in Threads : t_update_acquire(t) /\ UNCHANGED outside_threads
    \/ \E t \in Threads : t_update(t) /\ UNCHANGED outside_threads
    \/ \E t \in Threads : t_save_check(t) /\ UNCHANGED outside_threads
    \/ \E t \in Threads : t_save_acquire(t) /\ UNCHANGED outside_threads
    \/ \E t \in Threads : t_save(t) /\ UNCHANGED outside_threads
    \/ \E t \in Threads : t_return(t) /\ UNCHANGED outside_threads
    \/ \E t \in Threads : t_finish(t) /\ UNCHANGED outside_threads

FairThreads ==
    /\ InitThreads /\ [][NextFair]_vars
    /\ \A t \in Threads : WF_vars(thread_step(t) /\ UNCHANGED outside_threads)

InitGenerate == PipeQuiet /\ EmbedInit /\ RerankQuiet /\ ChunkQuiet /\
    ThreadsQuiet /\ GenInit /\ IngestQuiet /\ AnswersQuiet /\
    TimingQuiet /\ BuildQuiet

NextGenerate == generate_answer /\ UNCHANGED outside_generate

\* One generate_answer() call on each list of contexts
SpecGenerate == InitGenerate /\ [][NextGenerate]_vars

InitIngest == PipeQuiet /\ EmbedInit /\ RerankQuiet /\ ChunkQuiet /\
    ThreadsQuiet /\ GenQuiet /\ IngestInit /\ AnswersQuiet /\
    TimingQuiet /\ BuildQuiet

NextIngest ==
    \/ \E docs \in IngestCorpora : ingest_start(docs) /\ UNCHANGED outside_ingest
    \/ ingest_chunk /\ UNCHANGED outside_ingest
    \/ build_embed /\ UNCHANGED outside_ingest
    \/ build_save_faiss /\ UNCHANGED outside_ingest
    \/ build_save_pkl /\ UNCHANGED outside_ingest
    \/ build_open_metadata /\ UNCHANGED outside_ingest
    \/ build_write_metadata /\ UNCHANGED outside_ingest
    \/ build_assign /\ UNCHANGED outside_ingest
    \/ ingest_return /\ UNCHANGED outside_ingest
    \/ ask_start /\ UNCHANGED outside_ingest
    \/ ask_ensure /\ UNCHANGED outside_ingest
    \/ ask_load /\ UNCHANGED outside_ingest
    \/ ask_stages /\ UNCHANGED outside_ingest
    \/ ask_return /\ UNCHANGED outside_ingest

\* One pipeline ingesting, another answering over the same storage
SpecIngest == InitIngest /\ [][NextIngest]_vars

InitAnswers == PipeQuiet /\ EmbedInit /\ RerankQuiet /\ ChunkQuiet /\
    ThreadsQuiet /\ GenQuiet /\ IngestQuiet /\ AnswersInit /\
    TimingQuiet /\ BuildQuiet

NextAnswers ==
    \/ \E t \in Threads, q \in AnswerQueries :
          a_start(t, q) /\ UNCHANGED outside_answers
    \/ \E t \in Threads : a_ensure(t) /\ UNCHANGED outside_answers
    \/ \E t \in Threads : a_load(t) /\ UNCHANGED outside_answers
    \/ \E t \in Threads : a_retrieve(t) /\ UNCHANGED outside_answers
    \/ \E t \in Threads : a_retrieval_ranks(t) /\ UNCHANGED outside_answers
    \/ \E t \in Threads : a_rerank(t) /\ UNCHANGED outside_answers
    \/ \E t \in Threads : a_generate(t) /\ UNCHANGED outside_answers
    \/ \E t \in Threads : a_record(t) /\ UNCHANGED outside_answers
    \/ \E t \in Threads : a_insert(t) /\ UNCHANGED outside_answers
    \/ \E t \in Threads : a_return(t) /\ UNCHANGED outside_answers
    \/ \E t \in Threads : a_finish(t) /\ UNCHANGED outside_answers

\* One pipeline, its answer() calls made from concurrent threads
SpecAnswers == InitAnswers /\ [][NextAnswers]_vars

InitTiming == PipeQuiet /\ EmbedInit /\ RerankQuiet /\ ChunkQuiet /\
    ThreadsQuiet /\ GenQuiet /\ IngestQuiet /\ AnswersQuiet /\
    TimingInit /\ BuildQuiet

NextTiming ==
    \/ tm_answer_start /\ UNCHANGED outside_timing
    \/ \E d \in Durations : tm_setup(d) /\ UNCHANGED outside_timing
    \/ \E d \in Durations : tm_retrieve(d) /\ UNCHANGED outside_timing
    \/ \E d \in Durations : tm_rerank(d) /\ UNCHANGED outside_timing
    \/ \E d \in Durations : tm_generate(d) /\ UNCHANGED outside_timing
    \/ \E d \in Durations : tm_total(d) /\ UNCHANGED outside_timing
    \/ tm_record /\ UNCHANGED outside_timing

\* One answer() call and its timers
SpecTiming == InitTiming /\ [][NextTiming]_vars

\* what neither the embedding service nor the ingest touches
outside_build_embed == << pipe_vars, rerank_vars, chunk_vars, ethread_vars,
                         gen_vars, answers_vars, timing_vars >>

outside_service == << outside_build_embed, ingest_vars, build_vars >>

outside_store == << outside_build_embed, embed_vars, build_vars >>

NextBuild ==
    \/ \E q \in BuildQueries : query_start(q) /\ UNCHANGED outside_build_embed
    \/ query_finish /\ UNCHANGED outside_build_embed
    \/ embed_lookup /\ UNCHANGED outside_service
    \/ embed_batch /\ UNCHANGED outside_service
    \/ embed_update /\ UNCHANGED outside_service
    \/ embed_save /\ UNCHANGED outside_service
    \/ embed_return /\ UNCHANGED outside_service
    \/ \E docs \in BuildCorpora :
          service_ingest_start(docs) /\ UNCHANGED outside_build_embed
    \/ ingest_chunk /\ UNCHANGED outside_store
    \/ build_embed_start /\ UNCHANGED outside_build_embed
    \/ build_embed_done /\ UNCHANGED outside_build_embed
    \/ build_save_faiss /\ UNCHANGED outside_store
    \/ build_save_pkl /\ UNCHANGED outside_store
    \/ build_open_metadata /\ UNCHANGED outside_store
    \/ build_write_metadata /\ UNCHANGED outside_store
    \/ build_assign /\ UNCHANGED outside_store
    \/ ingest_return /\ UNCHANGED outside_store

\* One pipeline ingesting and embedding queries, the embedding step of
\* build_index going through the embedding service
SpecBuild == InitIngest /\ [][NextBuild]_vars


\* ------------------------------------------------------- claims: pipeline
IsBlank(q) == \A i \in DOMAIN q : q[i] = " "

Ops(cs) == [i \in DOMAIN cs |-> cs[i].op]

StageOrder == << "search", "rerank", "chat", "record" >>

IsPrefix(s, t) == Len(s) <= Len(t) /\ \A i \in DOMAIN s : s[i] = t[i]

\* C1: answer(query) with an empty or whitespace-only query raises the
\* validation error before any stage runs: the call is over at once with
\* ValueError, no search, rerank or chat call was made and the metrics table
\* has the rows it had when the call started.
C1_EmptyQueryRejected ==
    (pc # "idle" /\ IsBlank(query)) =>
        /\ pc = "done"
        /\ outcome = "ValueError"
        /\ calls = <<>>
        /\ Len(metrics) = rows_at_start

C1_Witness ==
    /\ pc = "done"
    /\ query = << " ", " " >>
    /\ outcome = "ValueError"
    /\ rows_at_start > 0

\* C2: every answer() that returns an Answer made exactly the calls search,
\* rerank, chat completion, record, once each and in that order; at every
\* point of any call the calls made so far are a prefix of that order, and a
\* stage is entered only when all earlier stages have made their call.
C2_StagesInOrder ==
    /\ IsPrefix(Ops(calls), StageOrder)
    /\ outcome = "Answer" => Ops(calls) = StageOrder
    /\ pc = "retrieve" => Len(calls) = 0
    /\ pc = "rerank" => Len(calls) = 1
    /\ pc = "generate" => Len(calls) = 2
    /\ pc = "record" => Len(calls) = 3

C2_Witness ==
    /\ pc = "done"
    /\ outcome = "Answer"
    /\ n_answers = 2
    /\ Len(calls) = 4

\* C3: the retrieval stage requests exactly max(configured rerank depth,
\* topK) candidates, topK being the configured default when none is given,
\* and requests them before the reranker is invoked.
C3_RetrievalDepth ==
    \A i \in DOMAIN calls :
        calls[i].op = "search" =>
            /\ calls[i].k =
                   Max(settings.rerank_top_k,
                       IF top_k = Nil THEN settings.top_k ELSE Val(top_k))
            /\ \A j \in 1 .. i : calls[j].op # "rerank"

\* C4 as claimed: the depth requested from retrieval is strictly greater
\* than the top-K passed to the reranker.
C4_PoolStrictlyLarger ==
    \A i, j \in DOMAIN calls :
        (calls[i].op = "search" /\ calls[j].op = "rerank") =>
            calls[i].k > calls[j].k

\* C4 as amended: the depth requested from retrieval is at least the top-K
\* passed to the reranker, and strictly greater exactly when that top-K is
\* smaller than the configured rerank depth.
C4_PoolAtLeastTopK ==
    \A i, j \in DOMAIN calls :
        (calls[i].op = "search" /\ calls[j].op = "rerank") =>
            /\ calls[i].k >= calls[j].k
            /\ calls[i].k > calls[j].k <=> calls[j].k < settings.rerank_top_k

C4_Witness ==
    \E i, j \in DOMAIN calls :
        /\ calls[i].op = "search"
        /\ calls[j].op = "rerank"
        /\ calls[i].k = calls[j].k
        /\ calls[j].k > settings.rerank_top_k

\* C5: an answer() with a valid query issued when no persisted index exists
\* ends in the configuration error (RuntimeError) of the vector store: no
\* search is made, so no result list, empty or not, is returned, no later
\* stage runs, no Answer is returned and no metrics row is appended.
C5_NoIndexIsConfigurationError ==
    (index_files = Nil /\ ~IsBlank(query) /\ pc \notin {"idle", "retrieve"}) =>
        /\ pc = "done"
        /\ outcome = "RuntimeError"
        /\ calls = <<>>
        /\ retrieval_results = <<>>
        /\ Len(metrics) = rows_at_start

C5_Witness ==
    /\ index_files = Nil
    /\ pc = "done"
    /\ query = << " ", "q", " " >>
    /\ outcome = "RuntimeError"
    /\ settings.api_key

\* limits passed to recent(); 10 is the limit of the metrics scenario
Limits == (0 .. MaxLimit) \cup {10}

\* C6 as claimed: after n answer() calls that returned an Answer,
\* recent(limit) has min(n, limit) rows, newest first, and total_queries = n.
C6_RowPerAnswer ==
    \A limit \in Limits :
        LET r == recent(metrics, limit)
        IN  /\ Len(r) = Min(n_answers, limit)
            /\ \A i \in 1 .. Len(r) - 1 : r[i].timestamp > r[i + 1].timestamp
            /\ aggregates(metrics).total_queries = n_answers

\* C6 as amended: with m the number of answer() calls whose metrics insert
\* succeeded (m = n when no insert failed), recent(limit) has min(m, limit)
\* rows, the i-th being the i-th latest recorded, and total_queries = m.
C6_RowPerInsert ==
    \A limit \in Limits :
        LET r == recent(metrics, limit)
            m == Len(recorded)
        IN  /\ Len(r) = Min(m, limit)
            /\ \A i \in 1 .. Len(r) : r[i].timestamp = recorded[m - i + 1]
            /\ \A i \in 1 .. Len(r) - 1 : r[i].timestamp > r[i + 1].timestamp
            /\ aggregates(metrics).total_queries = m
            /\ m <= n_answers

C6_Witness ==
    /\ n_answers = 3
    /\ Len(recorded) = 3
    /\ Len(recent(metrics, 10)) = 3
    /\ aggregates(metrics).total_queries = 3


\* ---------------------------------------------- claims: embedding service
IsHit(t) == hash_text(t) \in DOMAIN cache_at_start

\* the texts of the call in flight that were not cached when it started
Misses == SelectSeq(texts_list, LAMBDA t : ~IsHit(t))

\* how many of the first i texts were not cached when the call started
MissRank(i) == Len(SelectSeq(SubSeq(texts_list, 1, i), LAMBDA t : ~IsHit(t)))

\* C7: after one successful embed_texts(L), a second embed_texts(L) with the
\* same list returns the vectors the first call returned, every text being
\* served from the cache and the model not being invoked.
C7_Idempotent ==
    (/\ epc = "done" /\ e_outcome = "ok" /\ ~is_query
     /\ prev.ok /\ ~prev.is_query /\ prev.texts = texts_list) =>
        /\ result = prev.result
        /\ encode_log = <<>>
        /\ \A i \in DOMAIN texts_list : IsHit(texts_list[i])

\* C8: one embed_texts call invokes the model at most once, no text occurs
\* twice in the batch it passes, and a list whose first and third texts are
\* the same gets the same vector at both positions.
C8_DistinctMisses ==
    /\ Len(encode_log) <= 1
    /\ \A b \in DOMAIN encode_log : \A i, j \in DOMAIN encode_log[b] :
           i # j => encode_log[b][i] # encode_log[b][j]
    /\ (/\ epc = "done" /\ e_outcome = "ok" /\ ~is_query
        /\ Len(texts_list) = 3 /\ texts_list[1] = texts_list[3]) =>
           Len(result) = 3 /\ result[1] = result[3]

ExpectedAt(i) ==
    IF IsHit(texts_list[i]) THEN cache_at_start[hash_text(texts_list[i])]
    ELSE new_embeds[MissRank(i)]

\* C10: embed_texts returns one vector per input text, position i holding
\* the cached vector of texts[i] when it was a hit and the model's output
\* for texts[i] when it was a miss; the empty input returns the empty
\* result; embed_query(t) is element 0 of embed_texts([t]).
C10_OrderPreserving ==
    epc = "done" =>
        /\ texts_list = <<>> => (e_outcome = "ok" /\ result = <<>>)
        /\ (e_outcome = "ok" /\ ~is_query) =>
               /\ Len(result) = Len(texts_list)
               /\ \A i \in DOMAIN texts_list : result[i] = ExpectedAt(i)
        /\ (e_outcome = "ok" /\ is_query) => result = ExpectedAt(1)

\* ------------------------------------------------------ claims: rerankers
\* C11: for every reranker variant, rerank(query, candidates, k) returns at
\* most k results, each of them one of the candidates, and no two of them
\* with the same chunk text.
C11_RerankContract ==
    rr_pc = "done" =>
        /\ Len(rr_ranked) <= rr_top_k
        /\ \A i \in DOMAIN rr_ranked :
              \E j \in DOMAIN rr_candidates :
                  /\ rr_ranked[i].chunk_id = rr_candidates[j].chunk_id
                  /\ rr_ranked[i].text = rr_candidates[j].text
                  /\ rr_ranked[i].score = rr_candidates[j].score
        /\ \A i, j \in DOMAIN rr_ranked :
              rr_ranked[i].text = rr_ranked[j].text => i = j


\* -------------------------------------------------------- claims: chunker
\* the call chunk_document(doc, chunk_size, overlap) on the last document
\* taken has returned
DocumentDone == ck_pc \in {"corpus", "done"} /\ doc_i >= 1

TwoSentenceRun(size) ==
    /\ ck_pc = "done"
    /\ documents = << RawDocument(DocIds[1], TwoSentenceText) >>
    /\ chunk_size = size
    /\ overlap = 2

ChunkIdsOf(cs) == [i \in DOMAIN cs |-> cs[i].chunk_id]

ChunkTextsOf(cs) == [i \in DOMAIN cs |-> cs[i].text]

\* C12 as stated: the text of two sentences of 5 and 6 characters, chunked
\* with chunkSize 10 and overlap 2, gives exactly one chunk that holds both
\* sentences, with id "<docId>_00000".
C12_OneChunkForTwoSentences ==
    TwoSentenceRun(10) =>
        /\ ChunkTextsOf(all_chunks) = << TwoSentenceText >>
        /\ ChunkIdsOf(all_chunks) =
               << DocIds[1] \o << "_", "0", "0", "0", "0", "0" >> >>

\* C12 amended: with chunkSize 10 the two sentences (11 characters together)
\* give exactly two chunks, one for each sentence, with ids "<docId>_00000"
\* and "<docId>_00001"; with chunkSize 11 they give exactly one chunk that
\* holds both, with id "<docId>_00000".
C12_TwoChunksForTwoSentences ==
    /\ TwoSentenceRun(10) =>
          /\ ChunkTextsOf(all_chunks) =
                 << SubSeq(TwoSentenceText, 1, 5),
                    SubSeq(TwoSentenceText, 6, 11) >>
          /\ ChunkIdsOf(all_chunks) =
                 << DocIds[1] \o << "_", "0", "0", "0", "0", "0" >>,
                    DocIds[1] \o << "_", "0", "0", "0", "0", "1" >> >>
    /\ TwoSentenceRun(11) =>
          /\ ChunkTextsOf(all_chunks) = << TwoSentenceText >>
          /\ ChunkIdsOf(all_chunks) =
                 << DocIds[1] \o << "_", "0", "0", "0", "0", "0" >> >>

C12_Witness == TwoSentenceRun(10) /\ Len(all_chunks) = 2

\* the number a string of decimal digits writes; -1 when it is not one
RECURSIVE digits_value(_)
digits_value(s) ==
    LET d == << "0", "1", "2", "3", "4", "5", "6", "7", "8", "9" >>
        last == s[Len(s)]
        rest == SubSeq(s, 1, Len(s) - 1)
    IN  IF s = <<>> \/ ~(\E v \in 1 .. 10 : d[v] = last) THEN -1
        ELSE LET v == (CHOOSE v \in 1 .. 10 : d[v] = last) - 1
             IN  IF rest = <<>> THEN v
                 ELSE IF digits_value(rest) < 0 THEN -1
                 ELSE 10 * digits_value(rest) + v

\* position of the document with this doc_id in the corpus
DocPos(id) == CHOOSE p \in DOMAIN documents : documents[p].doc_id = id

\* C13: within a document chunkIndex starts at 0 and goes up by one from
\* chunk to chunk, chunkId is "<docId>_<chunkIndex in 5 digits, zero padded>",
\* so chunkIds are unique in the document; over a corpus of distinct docIds
\* the chunkIds are unique and the chunks come in the order of the documents.
C13_ChunkIds ==
    /\ \A i \in DOMAIN chunks :
          LET c == chunks[i]
              n == Len(c.doc_id)
          IN  /\ c.chunk_index = i - 1
              /\ c.doc_id = documents[doc_i].doc_id
              /\ Len(c.chunk_id) = n + 6
              /\ SubSeq(c.chunk_id, 1, n) = c.doc_id
              /\ c.chunk_id[n + 1] = "_"
              /\ digits_value(SubSeq(c.chunk_id, n + 2, n + 6)) = c.chunk_index
    /\ \A i, j \in DOMAIN chunks :
          chunks[i].chunk_id = chunks[j].chunk_id => i = j
    /\ \A i, j \in DOMAIN all_chunks :
          /\ all_chunks[i].chunk_id = all_chunks[j].chunk_id => i = j
          /\ i < j => DocPos(all_chunks[i].doc_id) <= DocPos(all_chunks[j].doc_id)

C13_Witness ==
    /\ ck_pc = "done"
    /\ Len(documents) = 2
    /\ \A p \in DOMAIN documents :
          \E i, j \in DOMAIN all_chunks :
              /\ all_chunks[i].doc_id = documents[p].doc_id
              /\ all_chunks[j].doc_id = documents[p].doc_id
              /\ all_chunks[j].chunk_index = all_chunks[i].chunk_index + 1

\* the sentences a window kept from the window before
CarryOver(window, n) == SubSeq(window, 1, n)

\* C14: for 0 <= overlap < chunkSize, whenever a window is closed the
\* sentences kept for the next window have a total length of at most
\* overlap characters.
C14_CarryOverWithinOverlap ==
    overlap < chunk_size =>
        /\ carry <= Len(current_chunk)
        /\ sum_len(CarryOver(current_chunk, carry)) <= overlap
        /\ \A k \in DOMAIN windows :
              /\ windows[k].carry <= Len(windows[k].sentences)
              /\ sum_len(CarryOver(windows[k].sentences, windows[k].carry))
                     <= overlap

C14_Witness ==
    /\ overlap < chunk_size
    /\ overlap > 0
    /\ carry > 0
    /\ Len(chunks) >= 1
    /\ Len(windows[Len(chunks)].sentences) > carry

\* the text of a chunk without the sentences kept from the chunk before
OwnText(k) ==
    LET n == sum_len(CarryOver(windows[k].sentences, windows[k].carry))
    IN  SubSeq(chunks[k].text, n + 1, Len(chunks[k].text))

RECURSIVE OwnTextsFrom(_)
OwnTextsFrom(k) ==
    IF k > Len(chunks) THEN <<>> ELSE OwnText(k) \o OwnTextsFrom(k + 1)

\* C15: the chunks of a document in order, each without the leading
\* sentences kept from the chunk before, concatenate to the concatenation
\* of the document's sentences in order.
C15_RoundTrip == DocumentDone => OwnTextsFrom(1) = join(sentences)

\* C16: chunk_document returns no chunks for a document whose text is empty.
C16_EmptyTextNoChunks ==
    DocumentDone /\ documents[doc_i].text = <<>> => chunks = <<>>

Oversized(s) == Len(s) > chunk_size

\* how many of the sentences of ss are over the chunk size
RECURSIVE CountOversized(_)
CountOversized(ss) ==
    IF ss = <<>> THEN 0
    ELSE (IF Oversized(Head(ss)) THEN 1 ELSE 0) + CountOversized(Tail(ss))

RECURSIVE CountOversizedOwn(_)
CountOversizedOwn(k) ==
    IF k > Len(windows) THEN 0
    ELSE CountOversized(SubSeq(windows[k].sentences, windows[k].carry + 1,
                               Len(windows[k].sentences)))
         + CountOversizedOwn(k + 1)

\* C17 as stated: for overlap < chunkSize, a sentence longer than chunkSize
\* is never split and is a chunk of its own, with no other sentence in it.
C17_OversizedAlone ==
    overlap < chunk_size =>
        \A k \in DOMAIN windows :
            (\E i \in DOMAIN windows[k].sentences :
                 Oversized(windows[k].sentences[i])) =>
                /\ Len(windows[k].sentences) = 1
                /\ chunks[k].text = strip(windows[k].sentences[1])

\* C17 amended: for overlap < chunkSize, a sentence longer than chunkSize is
\* never split: it is whole in exactly one chunk, as the last sentence of
\* that chunk, and the only sentences before it there are the ones kept
\* from the window before, of total length at most overlap (none when
\* overlap is 0); the chunk's text is these sentences joined, without the
\* whitespace around them.
C17_OversizedAfterCarryOnly ==
    overlap < chunk_size =>
        /\ \A k \in DOMAIN windows :
              LET w == windows[k]
              IN  \A i \in DOMAIN w.sentences :
                      Oversized(w.sentences[i]) =>
                          /\ i = Len(w.sentences)
                          /\ i = w.carry + 1
                          /\ sum_len(CarryOver(w.sentences, w.carry)) <= overlap
                          /\ overlap = 0 => Len(w.sentences) = 1
                          /\ chunks[k].text = strip(join(w.sentences))
        /\ DocumentDone => CountOversizedOwn(1) = CountOversized(sentences)

C17_Witness ==
    /\ DocumentDone
    /\ overlap < chunk_size
    /\ \E k \in DOMAIN windows :
          /\ windows[k].carry >= 1
          /\ Oversized(windows[k].sentences[Len(windows[k].sentences)])

\* C18: every chunk has startOffset <= endOffset <= len(source text), and
\* the chunks of a document come in non-decreasing startOffset order.
C18_Offsets ==
    doc_i >= 1 =>
        /\ \A k \in DOMAIN chunks :
              /\ 0 <= chunks[k].start_index
              /\ chunks[k].start_index <= chunks[k].end_index
              /\ chunks[k].end_index <= Len(documents[doc_i].text)
        /\ \A k, l \in DOMAIN chunks :
              k < l => chunks[k].start_index <= chunks[l].start_index

C18_Witness ==
    /\ DocumentDone
    /\ Len(chunks) >= 2
    /\ chunks[1].start_index < chunks[2].start_index
    /\ chunks[2].start_index < chunks[1].end_index
    /\ chunks[Len(chunks)].end_index < Len(documents[doc_i].text)


\* ------------------------------------------- claims: pipeline, error paths
\* C19: MetricsCollector.record never raises to its caller: when the insert
\* or the commit fails, record returns normally, the write lock is released
\* and the enclosing answer() still returns its complete Answer.
C19_RecordNeverRaises ==
    /\ outcome \in {None, "Answer", "ValueError", "RuntimeError",
                    "ExternalError"}
    /\ pc # "insert" => ~metrics_lock
    /\ insert_failed =>
          /\ pc = "done"
          /\ outcome = "Answer"
          /\ answer = Some(Answer(query, reranked_results))
          /\ Ops(calls) = StageOrder
          /\ Len(metrics) = rows_at_start

C19_Witness ==
    /\ insert_failed
    /\ pc = "done"
    /\ outcome = "Answer"
    /\ ~metrics_lock
    /\ n_answers = 2

\* C20: if a stage (retrieve, rerank or generate) raises during answer(),
\* the error reaches the caller: no later stage runs, no stage or external
\* call is made a second time, no Answer is returned and no metrics row is
\* appended for that query.
C20_StageErrorReachesCaller ==
    raised_in # None =>
        /\ pc = "done"
        /\ outcome \in {"RuntimeError", "ExternalError"}
        /\ answer = Nil
        /\ Len(metrics) = rows_at_start
        /\ ~insert_failed /\ ~metrics_lock
        /\ IsInjective(Ops(calls))
        /\ raised_in = "retrieve" => Ops(calls) \in {<<>>, << "search" >>}
        /\ raised_in = "rerank" => Ops(calls) = << "search", "rerank" >>
        /\ raised_in = "generate" =>
               Ops(calls) \in { << "search", "rerank" >>,
                                << "search", "rerank", "chat" >> }

C20_Witness ==
    /\ raised_in = "rerank"
    /\ pc = "done"
    /\ outcome = "ExternalError"
    /\ Len(metrics) >= 1
    /\ retrieval_results # <<>>



\* ------------------------------------------- claims: the service in threads
\* thread t is inside _load_model with the model assigned and its
\* target_devices not yet set (embedding_service.py:54-62)
Loading(t) == tpc[t] = "load_configure"

\* C21: under any interleaving of concurrent first callers the model is
\* loaded at most once per service, and no caller runs inference (is inside
\* model.encode) before the load has completed, that is while the loading
\* thread is still inside _load_model.
C21_LoadedOnceBeforeInference ==
    /\ n_loads <= 1
    /\ \A t \in Threads : tpc[t] = "encoding" =>
          /\ model # None
          /\ target_devices = "configured"
          /\ \A u \in Threads : ~Loading(u)

\* C26: cache entries are append-only: once a key is in the in-memory cache
\* its vector is never assigned again, neither for a text that is twice in
\* one input list nor for one that two threads miss concurrently, and the
\* cache holds one entry per distinct text.
C26_AppendOnly ==
    /\ reassigned = {}
    /\ \A k \in DOMAIN shared_cache : \E t \in Texts :
          /\ k = hash_text(t)
          /\ shared_cache[k][1] = t

\* thread t's call has rewritten, or tried to rewrite, the snapshot file
Wrote(t) == twrote[t] # Nil

\* the rewrite was made by the holder of the cache lock, with the flag
\* set, after every text of the caller's list was in the cache
WriteInOrder(t) ==
    /\ Val(twrote[t]).holder = t
    /\ Val(twrote[t]).dirty
    /\ Val(twrote[t]).inserted

\* C30: the snapshot file is rewritten only by a thread holding the cache
\* lock, only when the flag is set and only after the caller's batch is
\* inserted; a call whose inputs are all hits writes nothing, and a caller
\* whose entries an earlier flush covered (the flag is clear at one of the
\* two checks of _save_cache) does not write again.
C30_AllHitsNeverWrite ==
    \A t \in Threads : Wrote(t) =>
        /\ WriteInOrder(t)
        /\ tmissing[t] # <<>>

\* two concurrent callers both inserted new entries, one flush covered
\* both and the other caller returned without writing
C30_Witness ==
    /\ \A t \in Threads : tpc[t] = "done" /\ toutcome[t] = "ok"
                          /\ tmissing[t] # <<>>
    /\ Wrote("t1") /\ ~Wrote("t2")
    /\ ttexts["t1"] = << "a" >> /\ ttexts["t2"] = << "b" >>
    /\ ~shared_dirty
    /\ snapshot = Some(shared_cache)
    /\ DOMAIN shared_cache = Keys

\* -------------------------------------------------- claims: the generator
GenReturned == gen_pc = "done" /\ gen_outcome = "ok"

\* C22: generate_answer returns exactly one citation per supplied context,
\* in context order: the i-th citation (from 1) has the label "[i]" and the
\* doc_id and chunk_id of the i-th context, and its excerpt is the first
\* characters, at most 200, of the context's stripped text; nothing in the
\* citations depends on the text the chat model returned.
C22_CitationsFromContexts ==
    GenReturned =>
        LET cs == Val(gen_result).citations
        IN  /\ Len(cs) = Len(gen_contexts)
            /\ \A i \in DOMAIN gen_contexts :
                  LET whole == strip(gen_contexts[i].text)
                  IN  /\ cs[i].label = << "[" >> \o digits(i) \o << "]" >>
                      /\ cs[i].doc_id = gen_contexts[i].doc_id
                      /\ cs[i].chunk_id = gen_contexts[i].chunk_id
                      /\ Len(cs[i].excerpt) <= ExcerptLimit
                      /\ Len(cs[i].excerpt) <= Len(whole)
                      /\ Len(whole) <= ExcerptLimit => cs[i].excerpt = whole
                      /\ \A j \in DOMAIN cs[i].excerpt :
                            cs[i].excerpt[j] = whole[j]

\* two contexts, the first with a stripped text longer than the limit, and
\* a reply that carries citation markers of its own
C22_Witness ==
    /\ GenReturned
    /\ Len(gen_contexts) = 2
    /\ Len(strip(gen_contexts[1].text)) > ExcerptLimit
    /\ gen_contexts[1].text # strip(gen_contexts[1].text)
    /\ gen_contexts[2].doc_id # gen_contexts[1].doc_id
    /\ gen_reply.content = "text [2][7]"
    /\ Len(Val(gen_result).citations[1].excerpt) = ExcerptLimit

\* ------------------------------------------------ claims: ColBERT backfill
\* the place of an output item in the candidate list
CandidatePos(item) ==
    CHOOSE p \in DOMAIN rr_candidates :
        rr_candidates[p].chunk_id = item.chunk_id

\* the candidate positions the scoring loop kept, in the model's order
ScoredPositions ==
    rank_loop([ranked |-> <<>>, seen |-> {},
               meta |-> [p \in DOMAIN rr_candidates |->
                           rr_candidates[p].meta_score]],
              rr_candidates, rr_results, 1).ranked

\* C23: when the ColBERT scoring loop keeps fewer than top_k results, the
\* output is the kept results in the model's order followed by the
\* candidates not yet selected, in candidate order, until top_k results or
\* no candidate is left; no candidate is in the output twice.
C23_BackfillInCandidateOrder ==
    (rr_pc = "done" /\ rr_name = "colbert"
       /\ Len(ScoredPositions) < rr_top_k) =>
        LET n == Len(ScoredPositions)
            pos(i) == CandidatePos(rr_ranked[i])
        IN  /\ Len(rr_ranked) = Min(rr_top_k, Len(rr_candidates))
            /\ \A i \in DOMAIN rr_ranked :
                  \E p \in DOMAIN rr_candidates :
                      rr_candidates[p].chunk_id = rr_ranked[i].chunk_id
            /\ \A i \in 1 .. n : pos(i) = ScoredPositions[i]
            /\ \A i \in n + 1 .. Len(rr_ranked) :
                  /\ pos(i) \notin Range(ScoredPositions)
                  /\ \A j \in i + 1 .. Len(rr_ranked) : pos(i) < pos(j)
                  /\ \A p \in 1 .. pos(i) - 1 :
                        \E j \in 1 .. i - 1 : pos(j) = p
            /\ \A i, j \in DOMAIN rr_ranked :
                  rr_ranked[i].chunk_id = rr_ranked[j].chunk_id => i = j

\* the model scored the last of three candidates only and two more were
\* asked for: the first two candidates follow it, in their order
C23_Witness ==
    /\ rr_pc = "done" /\ rr_name = "colbert"
    /\ Len(rr_candidates) = 3 /\ rr_top_k = 3
    /\ Len(rr_results) = 1
    /\ ScoredPositions = << 3 >>
    /\ Len(rr_ranked) = 3
    /\ rr_ranked[2].chunk_id = rr_candidates[1].chunk_id
    /\ rr_ranked[3].chunk_id = rr_candidates[2].chunk_id

\* --------------------------------------------------- claims: ingestion
\* C24: starting from storage with no persisted index, no answer() call
\* returns an Answer unless an ingest() call has completed before it: an
\* answer() issued before an ingest(), or overlapping one in progress on
\* another pipeline over the same storage, does not succeed.
C24_NoAnswerBeforeIngestCompletes ==
    (initial_index = Nil /\ ask_pc = "done" /\ ask_outcome = "Answer")
        => ask_done_before >= 1

\* C25: ingest() raises the fatal ingestion error when the corpus has no
\* documents or when every document text is empty; build_index is then
\* never called and the persisted index and metadata are as they were.
C25_EmptyCorpusIsFatal ==
    (ig_pc = "done"
       /\ \A i \in DOMAIN ig_documents : ig_documents[i].text = <<>>)
      => /\ ig_outcome = "RuntimeError"
         /\ ~ig_build_called
         /\ disk_files = ig_disk_at_start

\* ------------------------------------------ claims: answer() in threads
\* the contexts of the Answer thread t's caller holds are as they were
\* when the Answer was built
AnswerIntact(t) ==
    last_answer[t] # Nil =>
        \A i \in DOMAIN Val(last_answer[t]).contexts :
            LET ctx == Val(last_answer[t]).contexts[i]
            IN  doc_meta[ctx.object][ctx.chunk_id] = ctx.seen

\* the Documents of the loaded index hold the metadata they were stored with
IndexIntact ==
    \A o \in FaissObjects, c \in IndexChunkNames :
        doc_meta[o][c] = StoredMetadata

\* C27: the score and rank annotations of one answer() call are written to
\* that query's own copy of each chunk: they never change the chunk records
\* the loaded index holds, nor the contexts of an Answer another call
\* returned, which stay as they were when the Answer was built.
C27_AnnotationsOnOwnCopy ==
    /\ IndexIntact
    /\ \A t \in Threads : AnswerIntact(t)

\* C28: the persisted index is loaded at most once per adapter, also when
\* several threads issue the first search together, and after the load the
\* query path never replaces or mutates the in-memory index.
C28_LoadedOnceReadOnly ==
    /\ vs_loads <= 1
    /\ ~vs_replaced
    /\ vs_store # Nil => \A c \in IndexChunkNames :
          doc_meta[Val(vs_store)][c] = StoredMetadata

\* the calls whose row is written and which have not yet returned
Returning == { Val(a_call[t]) : t \in { u \in Threads : apc[u] = "return" } }

RowCalls == { db_rows[i].call : i \in DOMAIN db_rows }

\* C29: under any interleaving of concurrent answer() calls, while inserts
\* succeed, the metrics table holds exactly one row for each call that
\* returned an Answer (and for each that is about to return), none for a
\* call that raised, every row keeps its id and place, and at most one
\* thread is inside insert-and-commit, the holder of the collector's lock.
C29_OneRowPerAnswer ==
    /\ \A t, u \in Threads :
          (apc[t] = "insert" /\ apc[u] = "insert") => t = u
    /\ \A t \in Threads : apc[t] = "insert" => db_lock = t
    /\ \A i \in DOMAIN db_rows : db_rows[i].id = i
    /\ \A i, j \in DOMAIN db_rows : db_rows[i].call = db_rows[j].call => i = j
    /\ RowCalls \cap failed = {}
    /\ insert_failures = 0 => RowCalls = completed \cup Returning

\* two overlapping calls both returned an Answer and two rows are there
C29_Witness ==
    /\ \A t \in Threads : apc[t] = "done" /\ a_outcome[t] = "Answer"
    /\ Len(db_rows) = 2
    /\ insert_failures = 0
    /\ db_rows[1].call[1] # db_rows[2].call[1]
    /\ db_rows[1].call[2] > db_rows[2].call[2]

\* ------------------------------- claims: the cache snapshot under threads
\* thread t's call tried to rewrite the snapshot file and the write raised
WriteFailed(t) == Wrote(t) /\ ~Val(twrote[t]).written

\* the keys of the texts thread t's call was made with
keys_of_call(t) == { hash_text(ttexts[t][i]) : i \in DOMAIN ttexts[t] }

\* C31: when writing the cache snapshot fails, embed_texts still returns the
\* complete result without raising (one vector for every text, each the
\* vector of its text), the entries stay in the in-memory cache, and the
\* flag stays set until a flush has written them: once the flag is clear
\* the snapshot file holds the call's entries.
C31_FailedWriteKeepsResult ==
    \A t \in Threads : WriteFailed(t) =>
        /\ tpc[t] \in {"return", "done"}
        /\ tpc[t] = "done" => toutcome[t] = "ok"
        /\ Len(tembeddings[t]) = Len(ttexts[t])
        /\ \A i \in DOMAIN ttexts[t] :
              /\ tembeddings[t][i] # Nil
              /\ tembeddings[t][i][1] = ttexts[t][i]
        /\ keys_of_call(t) \subseteq DOMAIN shared_cache
        /\ ~shared_dirty =>
              /\ snapshot # Nil
              /\ keys_of_call(t) \subseteq DOMAIN Val(snapshot)

\* t1's write failed, t1 has its result, and the flush of t2's later call
\* has written the entries of both
C31_Witness ==
    /\ WriteFailed("t1")
    /\ tpc["t1"] = "done" /\ toutcome["t1"] = "ok"
    /\ ttexts["t1"] = << "a" >> /\ tmissing["t1"] # <<>>
    /\ Wrote("t2") /\ Val(twrote["t2"]).written
    /\ ttexts["t2"] = << "b" >>
    /\ ~shared_dirty
    /\ snapshot = Some(shared_cache)
    /\ DOMAIN shared_cache = Keys

\* C37: whenever the flag is clear and no thread holds the cache lock,
\* every entry of the in-memory cache is in the snapshot file, with the same
\* vector, whatever the interleaving of the calls and whichever writes fail.
C37_SnapshotCoherent ==
    (~shared_dirty /\ cache_lock = None) =>
        \A k \in DOMAIN shared_cache :
            /\ snapshot # Nil
            /\ k \in DOMAIN Val(snapshot)
            /\ Val(snapshot)[k] = shared_cache[k]

\* the entries of both threads are cached and flushed, one thread's write
\* having failed before the other's succeeded
C37_Witness ==
    /\ ~shared_dirty /\ cache_lock = None
    /\ DOMAIN shared_cache = Keys
    /\ snapshot = Some(shared_cache)
    /\ \E t \in Threads : WriteFailed(t)
    /\ \E t \in Threads : Wrote(t) /\ Val(twrote[t]).written
                          /\ tpc[t] = "done"

\* no thread holds the cache lock outside the three with blocks of
\* embed_texts and _save_cache, and none holds both locks
LockDiscipline ==
    \A t \in Threads :
        /\ cache_lock = t =>
              tpc[t] \in {"lookup_locked", "update_locked", "save_locked"}
        /\ model_lock = t =>
              /\ tpc[t] \in {"load_recheck", "load_construct",
                              "load_configure"}
              /\ cache_lock # t

InCall(t) == tpc[t] \notin {"idle", "done"}

\* some thread that is in a call can take a step
NoDeadlock ==
    (\E t \in Threads : InCall(t)) =>
        \E t \in Threads :
            InCall(t) /\ ENABLED (thread_step(t) \/ model_step(t))

\* C38: the cache lock is never held while the model is being loaded or is
\* running inference, and no thread holds the cache lock and the model lock
\* together; concurrent embed_texts calls cannot deadlock (a thread in a
\* call can always take a step); and a call whose inputs are all hits
\* completes even if the model library never returns to another thread:
\* a call that reaches the lookup returns, or has a missing text.
C38_LockDiscipline ==
    /\ []LockDiscipline
    /\ []NoDeadlock
    /\ \A t \in Threads :
          (tpc[t] = "lookup") ~> (tpc[t] = "done" \/ tmissing[t] # <<>>)

\* t2's call, all hits, has returned while t1 is inside encode
C38_Witness ==
    /\ tpc["t1"] = "encoding"
    /\ tpc["t2"] = "done" /\ toutcome["t2"] = "ok"
    /\ ttexts["t2"] # <<>> /\ tmissing["t2"] = <<>>
    /\ cache_lock = None

\* ------------------------------------------- claims: the persisted index
\* C33: whenever no build_index is in progress, also after one that failed
\* part-way, the metadata file holds exactly one record for each entry of
\* the persisted index, in the same order and of the same chunks: the
\* vectors file, the docstore file and the metadata file are all absent or
\* all list the same chunk ids.
C33_MetadataMatchesIndex ==
    ~ingest_in_progress =>
        /\ disk_pkl = disk_faiss
        /\ disk_metadata = disk_faiss

\* the chunk ids of the build_index call in progress
new_ids == chunk_ids(ig_chunks)

\* C34: a build_index that completes replaces what was there: the
\* persisted index, the metadata file and the adapter's in-memory index
\* hold exactly the chunks of that call; and the in-memory index changes at
\* no other moment, so every later search through the adapter is over those
\* chunks until another build completes.
C34_RebuildReplaces ==
    /\ [](ig_pc = "done" /\ ig_outcome = "ok" =>
            /\ disk_faiss = Some(new_ids)
            /\ disk_pkl = Some(new_ids)
            /\ disk_metadata = Some(new_ids)
            /\ ig_store = Some(FaissStore(new_ids, new_ids)))
    /\ [][ig_store' # ig_store =>
            /\ ig_pc = "assign" /\ ig_pc' = "done" /\ ig_outcome' = "ok"
            /\ ig_store' = Some(FaissStore(new_ids, new_ids))]_vars

\* a second build_index has completed over an index of other chunks that
\* the same adapter built before
C34_Witness ==
    /\ ig_pc = "done" /\ ig_outcome = "ok"
    /\ n_ingest_done = 2
    /\ ig_disk_at_start.faiss # Nil
    /\ ig_disk_at_start.faiss # Some(OldIndex)
    /\ \E id \in Range(Val(ig_disk_at_start.faiss)) : id \notin Range(new_ids)
    /\ ig_store = Some(FaissStore(new_ids, new_ids))
    /\ disk_faiss = Some(new_ids)

\* ------------------------------------------------- claims: the chunk size
\* every sentence of the document is at most chunk_size characters long
AllSentencesFit == \A i \in DOMAIN sentences : ~Oversized(sentences[i])

\* C36 as stated: for 0 <= overlap < chunkSize, a chunk's text is longer
\* than chunkSize only if the chunk contains a sentence longer than
\* chunkSize; so when every sentence fits, every chunk is at most chunkSize
\* characters long.
C36_ChunksWithinSize ==
    overlap < chunk_size =>
        \A k \in DOMAIN windows :
            Len(chunks[k].text) > chunk_size =>
                \E i \in DOMAIN windows[k].sentences :
                    Oversized(windows[k].sentences[i])

\* C36 amended: for 0 <= overlap < chunkSize, a chunk whose text is longer
\* than chunkSize is the sentences kept from the window before, of at most
\* overlap characters together, followed by exactly one sentence; so it is
\* at most overlap characters longer than that sentence, at most
\* chunkSize + overlap characters long when every sentence fits, and with
\* overlap 0 it is a single sentence longer than chunkSize.
C36_OverSizeIsCarryPlusOne ==
    overlap < chunk_size =>
        \A k \in DOMAIN windows :
            LET w == windows[k]
                last == w.sentences[Len(w.sentences)]
            IN  Len(chunks[k].text) > chunk_size =>
                    /\ Len(w.sentences) = w.carry + 1
                    /\ sum_len(CarryOver(w.sentences, w.carry)) <= overlap
                    /\ Len(chunks[k].text) <= overlap + Len(last)
                    /\ AllSentencesFit =>
                          Len(chunks[k].text) <= chunk_size + overlap
                    /\ w.carry = 0 => Oversized(last)

\* every sentence fits and a chunk is longer than the chunk size
C36_Witness ==
    /\ DocumentDone
    /\ overlap < chunk_size
    /\ AllSentencesFit
    /\ \E k \in DOMAIN windows : Len(chunks[k].text) > chunk_size

\* ------------------------------------------------ claims: stage timings
\* how long stage s took
stage_ms(s) == elapsed_ms(stage_ended[s], stage_began[s])

TimedAnswer == tm_pc = "done" /\ tm_outcome = "Answer"

\* C35: for every successful answer(), over a monotonic clock, the recorded
\* retrieval duration is that of the retrieve stage alone (rerank excluded),
\* the generation duration that of the generate stage alone, the total
\* latency runs from the start of retrieve to the end of generate, and
\* total >= retrieval + generation.
C35_StageTimings ==
    TimedAnswer =>
        /\ tm_row.retrieval_ms = stage_ms("retrieve")
        /\ tm_row.generation_ms = stage_ms("generate")
        /\ tm_row.latency_ms =
               elapsed_ms(stage_ended["generate"], stage_began["retrieve"])
        /\ tm_row.latency_ms >= tm_row.retrieval_ms + tm_row.generation_ms

\* ------------------------------------------------ claims: failed embedding
\* embed_texts has raised from the model call and its caller has not yet
\* gone on
EmbedFailed == epc = "done" /\ e_outcome = "ExternalError"

\* build_index has raised from its embedding step and the caller of ingest()
\* has not yet gone on
BuildFailedEmbedding == ig_pc = "done" /\ embed_step_failed

\* C32: when the embedding model call fails, the failing operation changes
\* nothing: after a failed embed_texts the cache, the dirty flag and the
\* snapshot file are as they were before the call, and after a build_index
\* whose embedding step failed the index files, the metadata file and the
\* index in memory are as they were before it.
C32_FailedEmbeddingChangesNothing ==
    /\ EmbedFailed =>
           /\ cache = at_call.cache
           /\ cache_dirty = at_call.cache_dirty
           /\ cache_file = at_call.cache_file
    /\ BuildFailedEmbedding =>
           /\ disk_files = at_call.files
           /\ ig_store = at_call.store
           /\ cache = at_call.cache
           /\ cache_dirty = at_call.cache_dirty
           /\ cache_file = at_call.cache_file

\* a build_index failed in its embedding step with an index on disk and in
\* memory and vectors in the cache, some of them not yet in the snapshot
C32_Witness ==
    /\ BuildFailedEmbedding
    /\ at_call.files.faiss # Nil
    /\ at_call.files.metadata # Nil
    /\ at_call.store # Nil
    /\ at_call.cache # EmptyDict
    /\ at_call.cache_dirty

=============================================================================
